---- MODULE Spec2Model ----
(***************************************************************************)
(* Coloured Petri net engine of "Petrinets Modelling/Mond_process.py":     *)
(* ColouredToken, Place, Transition, PetriNet.  A net is a record          *)
(*   [places, transitions, stats, global_time, batch_counter, nextObj]     *)
(* and every method is an operator from a net to a net plus the method's   *)
(* result.  A Python exception is the field err of the result; the net     *)
(* returned with it is the net as the exception left it.                   *)
(***************************************************************************)
EXTENDS Integers, Sequences, FiniteSets, TLC

\* ---------------------------------------------------------------- bounds
\* token objects ever allocated in one behaviour
MaxObj == 4
\* largest capacity given to the bounded place at construction
MaxCap == 1
\* largest list handed to add_tokens / remove_tokens by a caller
MaxBatch == 2
\* largest steps argument of auto_run
MaxSteps == 2
\* largest value of the logical clock
MaxTime == 2
\* token objects the firings of the chain net may allocate beyond MaxObj
MaxChain == 8
\* largest max_depth argument of find_sequence_bfs
MaxDepth == 2
\* token objects the firings of the unit net may allocate beyond MaxObj
MaxUnit == 4
\* largest value of the batch counter at which a caller still calls
\* next_batch_id
MaxIds == 2
\* tokens added to the places on which remove_tokens and find_tokens are called
MaxTokens == 3
\* firings an agent asks of one transition of the Mond net
MaxFire == 1
\* firings of the transitions without input places (T1, T5) on the Mond
\* net inside auto_run
MaxRunSource == 1
\* token objects the firings of the Mond net may allocate, beyond those of
\* the initial marking, when an agent steps it
MaxMond == 13
\* largest value of the logical clock of the Mond net
MaxMondTime == 11

\* Python's None for an optional number (capacity, purity, T, limit)
None == -1
\* condition_fn=None of find_tokens
NoCond == ""

VARIABLES
    places,         \* PetriNet.places: name -> [tokens, capacity]
    transitions,    \* PetriNet.transitions: name -> [inputs, outputs, guard, fired_count]
    stats,          \* PetriNet.stats (defaultdict(int)): key -> count
    global_time,    \* PetriNet.global_time
    batch_counter,  \* PetriNet._batch_counter
    nextObj,        \* number of ColouredToken objects allocated so far (object identity)
    run,            \* the auto_run call in progress: [active, steps, step, policy,
                    \*   t0, fired, seen] (clock at the call, successful fires so
                    \*   far, transitions found enabled so far)
    last,           \* the last call made on the net and what it returned
    bfs,            \* the find_sequence_bfs call in progress and its local variables
    frame           \* what the last direct call on a place or on the net returned,
                    \* and the locals of a fire call that is being followed gate
                    \* by gate

vars == <<places, transitions, stats, global_time, batch_counter, nextObj, run, last, bfs,
          frame>>

\* Sequencing: the value of x is computed once and handed to F, as a Python
\* statement computes a value once before the statements after it use it.
Bind(x, F(_)) == CHOOSE y \in {F(v) : v \in {x}} : TRUE

\* ---------------------------------------------------------------- strings
\* Place names as character sequences, for the substring tests of fire.
Chars(name) ==
    CASE name = "A" -> <<"A">>
      [] name = "B" -> <<"B">>
      [] name = "P_condenser" -> <<"P", "_", "c", "o", "n", "d", "e", "n", "s", "e", "r">>
      [] name = "P_missing" -> <<"P", "_", "m", "i", "s", "s", "i", "n", "g">>
      [] name = "P_impure_Ni" -> <<"P", "_", "i", "m", "p", "u", "r", "e", "_", "N", "i">>
      [] name = "P_NiCO4_gas" -> <<"P", "_", "N", "i", "C", "O", "4", "_", "g", "a", "s">>
      [] name = "P_pure_Ni" -> <<"P", "_", "p", "u", "r", "e", "_", "N", "i">>
      [] name = "P_storage" -> <<"P", "_", "s", "t", "o", "r", "a", "g", "e">>
      [] name = "P_scrubber" -> <<"P", "_", "s", "c", "r", "u", "b", "b", "e", "r">>
      [] name = "P_decomposer" -> <<"P", "_", "d", "e", "c", "o", "m", "p", "o", "s", "e", "r">>
      [] name = "P_CO_recycle" -> <<"P", "_", "C", "O", "_", "r", "e", "c", "y", "c", "l", "e">>
      [] name = "T6" -> <<"T", "6">>
      [] name = "P_feed_ore" -> <<"P", "_", "f", "e", "e", "d", "_", "o", "r", "e">>
      [] name = "P_crush" -> <<"P", "_", "c", "r", "u", "s", "h">>
      [] name = "P_concentrate" -> <<"P", "_", "c", "o", "n", "c", "e", "n", "t", "r", "a", "t", "e">>
      [] name = "P_CO_feed" -> <<"P", "_", "C", "O", "_", "f", "e", "e", "d">>
      [] name = "P_transfer_to_decomp" -> <<"P", "_", "t", "r", "a", "n", "s", "f", "e", "r", "_", "t", "o", "_", "d", "e", "c", "o", "m", "p">>
      [] name = "P_offgas" -> <<"P", "_", "o", "f", "f", "g", "a", "s">>
      [] OTHER -> <<>>

LowerLetters ==
    <<"a", "b", "c", "d", "e", "f", "g", "h", "i", "l", "m", "n", "o", "p", "r", "s", "t", "u",
      "y">>
UpperLetters ==
    <<"A", "B", "C", "D", "E", "F", "G", "H", "I", "L", "M", "N", "O", "P", "R", "S", "T", "U",
      "Y">>

\* str.upper / str.lower on one character
UpperCh(c) ==
    IF \E i \in 1..Len(LowerLetters) : LowerLetters[i] = c
    THEN UpperLetters[CHOOSE i \in 1..Len(LowerLetters) : LowerLetters[i] = c]
    ELSE c
LowerCh(c) ==
    IF \E i \in 1..Len(UpperLetters) : UpperLetters[i] = c
    THEN LowerLetters[CHOOSE i \in 1..Len(UpperLetters) : UpperLetters[i] = c]
    ELSE c
Upper(s) == [i \in 1..Len(s) |-> UpperCh(s[i])]
Lower(s) == [i \in 1..Len(s) |-> LowerCh(s[i])]

\* sub in s
Contains(sub, s) ==
    \E i \in 0..(Len(s) - Len(sub)) : \A j \in 1..Len(sub) : s[i + j] = sub[j]
\* s.startswith(sub)
StartsWith(s, sub) ==
    /\ Len(sub) <= Len(s)
    /\ \A j \in 1..Len(sub) : s[j] = sub[j]

\* ---------------------------------------------------------------- tokens
\* ColouredToken.__init__; uid is the identity of the Python object
ColouredToken(uid, ttype, batch_id, mass, T, purity) ==
    [uid |-> uid, type |-> ttype, batch_id |-> batch_id, mass |-> mass,
     T |-> T, purity |-> purity, time_in_process |-> 0]

\* str(uuid.uuid4())[:8]: a fresh identifier, one per object
Uuid(uid) == <<"uuid", <<uid>>>>

Uids(tokens) == {tokens[i].uid : i \in 1..Len(tokens)}

\* ---------------------------------------------------------------- Place
\* Place.__init__
Place(capacity) == [tokens |-> <<>>, capacity |-> capacity]

\* Place.count
Count(place) == Len(place.tokens)

\* the capacity test of add_tokens, made before each append
AtCapacityOff(place) ==
    place.capacity # None /\ Len(place.tokens) > place.capacity
AtCapacity(place) ==
    place.capacity # None /\ Len(place.tokens) >= place.capacity

\* Place.add_tokens with a list: append one by one, raise at the first
\* token that finds the place full (what was appended before stays)
RECURSIVE AddTokensList(_, _)
AddTokensList(place, toks) ==
    IF toks = <<>> THEN [place |-> place, err |-> "none"]
    ELSE IF AtCapacity(place) THEN [place |-> place, err |-> "capacity exceeded"]
    ELSE AddTokensList([place EXCEPT !.tokens = Append(@, Head(toks))], Tail(toks))

\* Place.add_tokens with one token (not a list)
AddTokensOneLate(place, tok) ==
    IF AtCapacity(place)
    THEN [place |-> [place EXCEPT !.tokens = Append(@, tok)], err |-> "capacity exceeded"]
    ELSE [place |-> [place EXCEPT !.tokens = Append(@, tok)], err |-> "none"]
AddTokensOne(place, tok) ==
    IF AtCapacity(place) THEN [place |-> place, err |-> "capacity exceeded"]
    ELSE [place |-> [place EXCEPT !.tokens = Append(@, tok)], err |-> "none"]

\* list.remove(x): drop the first element equal to x (tokens compare by identity)
RECURSIVE ListRemove(_, _)
ListRemove(s, uid) ==
    IF s = <<>> THEN <<>>
    ELSE IF Head(s).uid = uid THEN Tail(s)
    ELSE <<Head(s)>> \o ListRemove(Tail(s), uid)

\* Place.remove_tokens: remove each given token in turn; list.remove raises
\* ValueError at the first one that is absent (earlier removals stay)
RECURSIVE RemoveTokensSkipAbsent(_, _)
RemoveTokensSkipAbsent(place, toks) ==
    IF toks = <<>> THEN [place |-> place, err |-> "none"]
    ELSE RemoveTokensSkipAbsent([place EXCEPT !.tokens = ListRemove(@, Head(toks).uid)],
                                Tail(toks))
RECURSIVE RemoveTokens(_, _)
RemoveTokens(place, toks) ==
    IF toks = <<>> THEN [place |-> place, err |-> "none"]
    ELSE IF Head(toks).uid \notin Uids(place.tokens)
    THEN [place |-> place, err |-> "token not found"]
    ELSE RemoveTokens([place EXCEPT !.tokens = ListRemove(@, Head(toks).uid)], Tail(toks))

\* the loop of Place.find_tokens from index i on
RECURSIVE FindLoop(_, _, _, _, _)
FindLoop(tokens, i, cond, limit, selected) ==
    IF i > Len(tokens) THEN selected
    ELSE IF cond = NoCond \/ tokens[i].type = cond
    THEN LET s2 == Append(selected, tokens[i])
         IN  IF limit # None /\ Len(s2) >= limit THEN s2
             ELSE FindLoop(tokens, i + 1, cond, limit, s2)
    ELSE FindLoop(tokens, i + 1, cond, limit, selected)

\* Place.find_tokens(condition_fn, limit)
FindTokens(place, cond, limit) == FindLoop(place.tokens, 1, cond, limit, <<>>)

\* ---------------------------------------------------------------- PetriNet helpers
\* f"{n:04d}": the decimal digits of n, zero-padded on the left to four
RECURSIVE Digits(_)
Digits(n) == IF n < 10 THEN <<n>> ELSE Append(Digits(n \div 10), n % 10)
Fmt04d(n) ==
    LET d == Digits(n)
    IN  IF Len(d) >= 4 THEN d ELSE [i \in 1..(4 - Len(d)) |-> 0] \o d

\* PetriNet.next_batch_id: bump the counter, return the formatted value
NextBatchIdNoBump(N) ==
    [net |-> N, id |-> Fmt04d(N.batch_counter + 1)]
NextBatchId(N) ==
    [net |-> [N EXCEPT !.batch_counter = @ + 1], id |-> Fmt04d(N.batch_counter + 1)]

\* allocation of one token object
Alloc(N) == [N EXCEPT !.nextObj = @ + 1]

\* ---------------------------------------------------------------- Transition
\* Transition.is_enabled: counts only, no guard
IsEnabledFirstOnly(tr, N) ==
    \A i \in 1..(IF Len(tr.inputs) > 0 THEN 1 ELSE 0) :
        ~(Count(N.places[tr.inputs[i].place]) < tr.inputs[i].w)
IsEnabledWithGuard(tr, N) ==
    /\ \A i \in 1..Len(tr.inputs) :
        ~(Count(N.places[tr.inputs[i].place]) < tr.inputs[i].w)
    /\ tr.guard.kind = "guard_T6" =>
          /\ Len(N.places[tr.guard.place].tokens) >= 1
          /\ N.places[tr.guard.place].tokens[1].purity \in {None} \cup 50..100
IsEnabledNeedsInput(tr, N) ==
    /\ Len(tr.inputs) > 0
    /\ \A i \in 1..Len(tr.inputs) :
        ~(Count(N.places[tr.inputs[i].place]) < tr.inputs[i].w)
IsEnabled(tr, N) ==
    \A i \in 1..Len(tr.inputs) :
        ~(Count(N.places[tr.inputs[i].place]) < tr.inputs[i].w)

\* Transition.select_tokens: the first w tokens of every input place, or
\* None (ok = FALSE) when some place yields fewer than w
SelectTokens(tr, N) ==
    LET pick(i) == FindTokens(N.places[tr.inputs[i].place], NoCond, tr.inputs[i].w)
    IN  IF \E i \in 1..Len(tr.inputs) : Len(pick(i)) < tr.inputs[i].w
        THEN [ok |-> FALSE, sel |-> <<>>]
        ELSE [ok |-> TRUE,
              sel |-> [i \in 1..Len(tr.inputs) |->
                          [place |-> tr.inputs[i].place, toks |-> pick(i)]]]

\* selected.get(pname, [])
SelGet(sel, pname) ==
    IF \E i \in 1..Len(sel) : sel[i].place = pname
    THEN sel[CHOOSE i \in 1..Len(sel) : sel[i].place = pname].toks
    ELSE <<>>

\* guard_T6 (on the place the guard is built for): purity None or >= 0.5
\* purities are in hundredths
GuardT6(place, sel) ==
    LET toks == SelGet(sel, place)
    IN  IF Len(toks) < 1 THEN FALSE
        ELSE IF toks[1].purity = None THEN TRUE
        ELSE toks[1].purity >= 50

\* guard_T10: at least one token selected from the place
GuardT10NeedsNiCO4(place, sel) ==
    Len(SelGet(sel, place)) >= 1 /\ SelGet(sel, place)[1].type = "NiCO4"
GuardT10(place, sel) == Len(SelGet(sel, place)) >= 1

\* self.guard(petri, selected)
GuardHoldsByChance(guard, N, sel) ==
    CASE guard.kind = "guard_T6" -> GuardT6(guard.place, sel) /\ N.draw = 0
      [] guard.kind = "guard_T10" -> GuardT10(guard.place, sel)
      [] OTHER -> TRUE
GuardHolds(guard, N, sel) ==
    CASE guard.kind = "guard_T6" -> GuardT6(guard.place, sel)
      [] guard.kind = "guard_T10" -> GuardT10(guard.place, sel)
      [] OTHER -> TRUE

\* the type-inference chain of fire for an integer output weight
InferType(out_place_name) ==
    LET nm == Chars(out_place_name)
        NiCO4 == <<"N", "i", "C", "O", "4">>
    IN  IF Contains(NiCO4, nm) \/ Contains(NiCO4, Upper(nm)) THEN "NiCO4"
        ELSE IF Contains(<<"C", "O">>, Upper(nm))
                \/ StartsWith(Lower(nm), <<"p", "_", "c", "o">>) THEN "CO"
        ELSE IF Contains(<<"N", "i">>, nm) /\ Contains(<<"p", "u", "r", "e">>, nm)
             THEN "Ni_pure"
        ELSE "material"

\* one default token for an integer output weight
DefaultToken(out_place_name, N) ==
    LET ty == InferType(out_place_name)
    IN  CASE ty = "NiCO4" ->
                Bind(NextBatchId(N), LAMBDA b :
                    [net |-> Alloc(b.net),
                     tok |-> ColouredToken(N.nextObj, "NiCO4", <<"B-", b.id>>, 1, 25, None)])
          [] ty = "CO" ->
                [net |-> Alloc(N),
                 tok |-> ColouredToken(N.nextObj, "CO", Uuid(N.nextObj), 1, None, None)]
          [] ty = "Ni_pure" ->
                [net |-> Alloc(N),
                 tok |-> ColouredToken(N.nextObj, "Ni_pure", Uuid(N.nextObj), 1, None, 99)]
          [] OTHER ->
                [net |-> Alloc(N),
                 tok |-> ColouredToken(N.nextObj, "material", Uuid(N.nextObj), 1, None, None)]

\* for i in range(int(out_val)): produced.append(token)
RECURSIVE Produce(_, _, _, _)
Produce(out_place_name, k, N, produced) ==
    IF k <= 0 THEN [net |-> N, toks |-> produced]
    ELSE Bind(DefaultToken(out_place_name, N), LAMBDA d :
             Produce(out_place_name, k - 1, d.net, Append(produced, d.tok)))

\* create_NiCO4: one NiCO4 token with the mass of the first token selected
\* from the rule's source place
CreateNiCO4(src, sel, N) ==
    LET inp == SelGet(sel, src)[1]
    IN  Bind(NextBatchId(N), LAMBDA b :
            [net |-> Alloc(b.net),
             toks |-> <<ColouredToken(N.nextObj, "NiCO4", <<"NC-", b.id>>, inp.mass, 25, None)>>])

\* the values random.random() can return, in thousandths: one at the low end
\* and one at the high end of [0, 1)
Draws == {0, 995}

\* a net together with the value the next call of random.random() returns
Drawn(N, d) ==
    [places |-> N.places, transitions |-> N.transitions, stats |-> N.stats,
     global_time |-> N.global_time, batch_counter |-> N.batch_counter,
     nextObj |-> N.nextObj, draw |-> d]
Undrawn(N) ==
    [places |-> N.places, transitions |-> N.transitions, stats |-> N.stats,
     global_time |-> N.global_time, batch_counter |-> N.batch_counter,
     nextObj |-> N.nextObj]

\* petri.stats[key] += 1 on a defaultdict(int)
IncStat(st, key) ==
    IF key \in DOMAIN st THEN [st EXCEPT ![key] = @ + 1] ELSE st @@ (key :> 1)

\* petri.places[name].add_tokens(tok) with one token
AddOneToPlace(N, name, tok) ==
    IF name \notin DOMAIN N.places THEN [net |-> N, err |-> "unknown place"]
    ELSE Bind(AddTokensOne(N.places[name], tok), LAMBDA r :
             [net |-> [N EXCEPT !.places[name] = r.place], err |-> r.err])

\* T12_callable with the copy added on both branches
T12CallableBoth(src, sel, N) ==
    LET tok == SelGet(sel, src)[1]
        copy == [tok EXCEPT !.uid = N.nextObj]
    IN  Bind(AddOneToPlace(Alloc(N), "P_storage", copy), LAMBDA r :
            IF r.err # "none" THEN r
            ELSE Bind(AddOneToPlace(r.net, "P_scrubber", copy), LAMBDA r2 :
                     IF r2.err # "none" THEN r2
                     ELSE [net |-> [r2.net EXCEPT !.stats = IncStat(@, <<"qc_passed">>)],
                           err |-> "none"]))

\* T12_callable: the quality check puts a copy of the token selected from
\* src into P_storage when the draw is at most the token's purity (0.95 when
\* it has none), into P_scrubber otherwise, counts the outcome, and returns
\* None; petri.places[...] is looked up before tok.copy() is evaluated, so
\* an unregistered place raises before the copy is made
T12CallableMiscount(src, sel, N) ==
    LET tok == SelGet(sel, src)[1]
        pass_prob == IF tok.purity # None THEN tok.purity ELSE 95
        copy == [tok EXCEPT !.uid = N.nextObj]
        passed == N.draw <= 10 * pass_prob
    IN  Bind(AddOneToPlace(Alloc(N), IF passed THEN "P_storage" ELSE "P_scrubber", copy),
             LAMBDA r :
                 IF r.err # "none" THEN r
                 ELSE [net |-> [r.net EXCEPT !.stats = IncStat(@, <<"qc_passed">>)],
                       err |-> "none"])
T12Callable(src, sel, N) ==
    LET tok == SelGet(sel, src)[1]
        pass_prob == IF tok.purity # None THEN tok.purity ELSE 95
        copy == [tok EXCEPT !.uid = N.nextObj]
        passed == N.draw <= 10 * pass_prob
        to == IF passed THEN "P_storage" ELSE "P_scrubber"
    IN  IF to \notin DOMAIN N.places THEN [net |-> N, err |-> "unknown place"]
        ELSE Bind(AddOneToPlace(Alloc(N), to, copy), LAMBDA r :
                 IF r.err # "none" THEN r
                 ELSE [net |-> [r.net EXCEPT !.stats =
                                   IncStat(@, IF passed THEN <<"qc_passed">>
                                              ELSE <<"qc_failed">>)],
                       err |-> "none"])

\* petri.places[name].add_tokens(list): KeyError for an unregistered place
AddToPlace(N, name, toks) ==
    IF name \notin DOMAIN N.places THEN [net |-> N, err |-> "unknown place"]
    ELSE Bind(AddTokensList(N.places[name], toks), LAMBDA r :
             [net |-> [N EXCEPT !.places[name] = r.place], err |-> r.err])

\* [ColouredToken("CO", batch_id=f"RCO-{petri.next_batch_id()}") for _ in range(k)]
RECURSIVE RecycledCO(_, _, _)
RecycledCO(k, N, made) ==
    IF k <= 0 THEN [net |-> N, toks |-> made]
    ELSE Bind(NextBatchId(N), LAMBDA b :
             RecycledCO(k - 1, Alloc(b.net),
                        Append(made, ColouredToken(N.nextObj, "CO", <<"RCO-", b.id>>, 1,
                                                   None, None))))

\* T10_output_callable: one Ni_pure token with the mass of the token
\* selected from src, then four CO tokens, each with a batch id of its own;
\* the rule itself adds them to P_pure_Ni and P_CO_recycle and returns None
T10CallableReturning(src, sel, N) ==
    LET inp == SelGet(sel, src)[1]
        ni_pure == ColouredToken(N.nextObj, "Ni_pure",
                                 <<"NP-", Fmt04d(N.batch_counter + 1)>>, inp.mass, 25, 99)
    IN  Bind(NextBatchId(N), LAMBDA b :
        Bind(RecycledCO(4, Alloc(b.net), <<>>), LAMBDA co :
        Bind(AddOneToPlace(co.net, "P_pure_Ni", ni_pure), LAMBDA r :
            IF r.err # "none" THEN r
            ELSE Bind(AddToPlace(r.net, "P_CO_recycle", co.toks), LAMBDA r2 :
                     IF r2.err # "none" THEN r2
                     ELSE AddOneToPlace(r2.net, "P_pure_Ni", ni_pure)))))
T10Callable(src, sel, N) ==
    LET inp == SelGet(sel, src)[1]
    IN  Bind(NextBatchId(N), LAMBDA b :
        Bind(RecycledCO(4, Alloc(b.net), <<>>), LAMBDA co :
        Bind(AddOneToPlace(co.net, "P_pure_Ni",
                           ColouredToken(N.nextObj, "Ni_pure", <<"NP-", b.id>>, inp.mass,
                                         25, 99)), LAMBDA r :
            IF r.err # "none" THEN r
            ELSE AddToPlace(r.net, "P_CO_recycle", co.toks))))

\* one output of fire: a callable rule, or an integer weight
ApplyOutput(N, out, sel) ==
    IF out.kind = "create_NiCO4"
    THEN IF Len(SelGet(sel, out.src)) < 1 THEN [net |-> N, err |-> "rule failed"]
         ELSE Bind(CreateNiCO4(out.src, sel, N), LAMBDA c :
                  AddToPlace(c.net, out.place, c.toks))
    ELSE IF out.kind = "T12_callable"
    THEN IF Len(SelGet(sel, out.src)) < 1 THEN [net |-> N, err |-> "rule failed"]
         ELSE T12Callable(out.src, sel, N)
    ELSE IF out.kind = "T10_callable"
    THEN IF Len(SelGet(sel, out.src)) < 1 THEN [net |-> N, err |-> "rule failed"]
         ELSE T10Callable(out.src, sel, N)
    ELSE Bind(Produce(out.place, out.w, N, <<>>), LAMBDA p :
             AddToPlace(p.net, out.place, p.toks))

\* the "Add outputs" loop of fire, from output i on
RECURSIVE ApplyOutputs(_, _, _, _)
ApplyOutputs(N, outputs, sel, i) ==
    IF i > Len(outputs) THEN [net |-> N, err |-> "none"]
    ELSE Bind(ApplyOutput(N, outputs[i], sel), LAMBDA r :
             IF r.err # "none" THEN r
             ELSE ApplyOutputs(r.net, outputs, sel, i + 1))

\* the "Remove tokens" loop of fire, from selection entry i on
RECURSIVE RemoveSelected(_, _, _)
RemoveSelected(N, sel, i) ==
    IF i > Len(sel) THEN [net |-> N, err |-> "none"]
    ELSE Bind(RemoveTokens(N.places[sel[i].place], sel[i].toks), LAMBDA r :
             IF r.err # "none"
             THEN [net |-> [N EXCEPT !.places[sel[i].place] = r.place], err |-> r.err]
             ELSE RemoveSelected([N EXCEPT !.places[sel[i].place] = r.place], sel, i + 1))

\* results of fire
Rejected(N, reason) ==
    [net |-> N, ok |-> FALSE, info |-> reason, sel |-> <<>>, err |-> "none"]
Raised(N, e) ==
    [net |-> N, ok |-> FALSE, info |-> "exception", sel |-> <<>>, err |-> e]
Fired(N, sel) ==
    [net |-> N, ok |-> TRUE, info |-> "selected", sel |-> sel, err |-> "none"]

\* Transition.fire after the guard: remove, add outputs, count the firing
ApplyNoCount(name, N, sel) ==
    Bind(RemoveSelected(N, sel, 1), LAMBDA r1 :
        IF r1.err # "none" THEN Raised(r1.net, r1.err)
        ELSE Bind(ApplyOutputs(r1.net, N.transitions[name].outputs, sel, 1), LAMBDA r2 :
                 IF r2.err # "none" THEN Raised(r2.net, r2.err)
                 ELSE Fired(r2.net, sel)))
Apply(name, N, sel) ==
    Bind(RemoveSelected(N, sel, 1), LAMBDA r1 :
        IF r1.err # "none" THEN Raised(r1.net, r1.err)
        ELSE Bind(ApplyOutputs(r1.net, N.transitions[name].outputs, sel, 1), LAMBDA r2 :
                 IF r2.err # "none" THEN Raised(r2.net, r2.err)
                 ELSE Fired([r2.net EXCEPT !.transitions[name].fired_count = @ + 1], sel)))

\* Transition.fire
FireRemoveBeforeGuard(name, N) ==
    LET tr == N.transitions[name]
    IN  IF ~IsEnabled(tr, N) THEN Rejected(N, "not enabled by counts")
        ELSE Bind(SelectTokens(tr, N), LAMBDA s :
                 IF ~s.ok THEN Rejected(N, "couldn't select tokens")
                 ELSE IF tr.guard.kind # "none" /\ ~GuardHolds(tr.guard, N, s.sel)
                 THEN Rejected(RemoveSelected(N, s.sel, 1).net, "guard blocked firing")
                 ELSE Apply(name, N, s.sel))
Fire(name, N) ==
    LET tr == N.transitions[name]
    IN  IF ~IsEnabled(tr, N) THEN Rejected(N, "not enabled by counts")
        ELSE Bind(SelectTokens(tr, N), LAMBDA s :
                 IF ~s.ok THEN Rejected(N, "couldn't select tokens")
                 ELSE IF tr.guard.kind # "none" /\ ~GuardHolds(tr.guard, N, s.sel)
                 THEN Rejected(N, "guard blocked firing")
                 ELSE Apply(name, N, s.sel))

\* PetriNet.add_place: refuse a registered name, else register a new Place
AddPlaceOverwrite(N, name, capacity) ==
    [net |-> [N EXCEPT !.places = (name :> Place(capacity)) @@ @], err |-> "none"]
AddPlaceResult(N, name, capacity) ==
    IF name \in DOMAIN N.places THEN [net |-> N, err |-> "place exists"]
    ELSE [net |-> [N EXCEPT !.places = (name :> Place(capacity)) @@ @], err |-> "none"]

\* PetriNet.add_transition: refuse a registered name, else register tr
AddTransitionResult(N, name, tr) ==
    IF name \in DOMAIN N.transitions THEN [net |-> N, err |-> "transition exists"]
    ELSE [net |-> [N EXCEPT !.transitions =
                      (name :> [tr EXCEPT !.pos = Cardinality(DOMAIN N.transitions) + 1]) @@ @],
          err |-> "none"]

\* PetriNet.get_enabled_transitions
GetEnabledTransitions(N) ==
    {name \in DOMAIN N.transitions : IsEnabled(N.transitions[name], N)}

\* the key of the firing statistic of a transition
StatKey(name) == <<"fired::", name>>

\* "if ok: self.stats[...] += 1" of step_fire and auto_run
CountFiredAlways(name, fired) ==
    Bind(fired, LAMBDA r : [r EXCEPT !.net.stats = IncStat(@, StatKey(name))])
CountFired(name, fired) ==
    Bind(fired, LAMBDA r :
        IF r.ok THEN [r EXCEPT !.net.stats = IncStat(@, StatKey(name))] ELSE r)

\* PetriNet.step_fire
StepFireLenient(name, N) ==
    IF name \notin DOMAIN N.transitions THEN Rejected(N, "not enabled by counts")
    ELSE CountFired(name, Fire(name, N))
StepFireResult(name, N) ==
    IF name \notin DOMAIN N.transitions THEN Raised(N, "unknown transition")
    ELSE CountFired(name, Fire(name, N))

\* ---------------------------------------------------------------- the net under test
\* Places registered with add_place; only the condenser is given a capacity
PlaceNames == {"A", "B", "P_impure_Ni", "P_condenser"}

In(place, w) == [place |-> place, w |-> w]
OutWeight(place, w) == [place |-> place, kind |-> "weight", w |-> w, src |-> ""]
OutRule(place, kind, src) == [place |-> place, kind |-> kind, w |-> 0, src |-> src]
NoGuard == [kind |-> "none", place |-> ""]

\* Transition.__init__
\* pos is the place of the transition in net.transitions, a dict that keeps
\* the order of registration; 0 before add_transition
Transition(inputs, outputs, guard) ==
    [inputs |-> inputs, outputs |-> outputs, guard |-> guard, fired_count |-> 0, pos |-> 0]

\* "for t in [...]: net.add_transition(t)": the transitions of table
\* registered in the given order
Registered(table, order) ==
    [name \in DOMAIN table |->
        [table[name] EXCEPT !.pos = CHOOSE i \in 1..Len(order) : order[i] = name]]

\* Transitions registered with add_transition
\*   TA  two tokens of A make one token in B
\*   T0  an input of weight 0 on B
\*   T5  no input place, two tokens into the bounded condenser
\*   T6  A and P_impure_Ni make NiCO4 in the condenser (create_NiCO4),
\*       guarded by guard_T6 on the purity of the token taken from
\*       P_impure_Ni
\*   TX  its second output place was never registered
NetOrder == <<"TA", "T0", "T5", "T6", "TX">>

NetTransitions ==
    Registered(
    [name \in {"TA", "T0", "T5", "T6", "TX"} |->
        CASE name = "TA" -> Transition(<<In("A", 2)>>, <<OutWeight("B", 1)>>, NoGuard)
          [] name = "T0" -> Transition(<<In("B", 0)>>, <<OutWeight("A", 1)>>, NoGuard)
          [] name = "T5" -> Transition(<<>>, <<OutWeight("P_condenser", 2)>>, NoGuard)
          [] name = "T6" -> Transition(<<In("A", 1), In("P_impure_Ni", 1)>>,
                                       <<OutRule("P_condenser", "create_NiCO4", "P_impure_Ni")>>,
                                       [kind |-> "guard_T6", place |-> "P_impure_Ni"])
          [] OTHER -> Transition(<<In("P_condenser", 1)>>,
                                 <<OutWeight("B", 1), OutWeight("P_missing", 1)>>, NoGuard)],
    NetOrder)


\* ---------------------------------------------------------------- the chain net
\* A second net under test, one a caller wires with Transition(...) and
\* add_transition from the guards and output rules of build_mond_process.
\* It is not the Mond net: T6 needs no CO and T8 feeds P_pure_Ni directly;
\* no transition is without input places, so the net can run dry.
\*   T6   impure Ni makes NiCO4 gas (create_NiCO4), guarded by guard_T6
\*   T7   gas into the bounded condenser
\*   T8   condenser into P_pure_Ni
\*   T12  T12_callable: a copy of the token goes to P_storage or P_scrubber
ChainPlaces ==
    {"P_impure_Ni", "P_NiCO4_gas", "P_condenser", "P_pure_Ni", "P_storage", "P_scrubber"}

ChainTransitions ==
    [name \in {"T6", "T7", "T8", "T12"} |->
        CASE name = "T6" -> Transition(<<In("P_impure_Ni", 1)>>,
                                       <<OutRule("P_NiCO4_gas", "create_NiCO4", "P_impure_Ni")>>,
                                       [kind |-> "guard_T6", place |-> "P_impure_Ni"])
          [] name = "T7" -> Transition(<<In("P_NiCO4_gas", 1)>>,
                                       <<OutWeight("P_condenser", 1)>>, NoGuard)
          [] name = "T8" -> Transition(<<In("P_condenser", 1)>>,
                                       <<OutWeight("P_pure_Ni", 1)>>, NoGuard)
          [] OTHER -> Transition(<<In("P_pure_Ni", 1)>>,
                                 <<OutRule("P_storage", "T12_callable", "P_pure_Ni")>>, NoGuard)]

\* the order of add_transition, which is the order of transitions.values()
ChainOrder == <<"T6", "T7", "T8", "T12">>

\* ---------------------------------------------------------------- the unit net
\* A third net under test, one a caller wires with Transition(...) and
\* add_transition from the guards and output rules of build_mond_process,
\* with a transition that has no input place and two output rules that
\* draw batch ids from the net's counter.  It is not the Mond net: T1 feeds
\* P_impure_Ni directly, T6 needs no CO and feeds P_decomposer directly.
\*   T1   no input place, one token into P_impure_Ni
\*   T6   impure Ni makes NiCO4 (create_NiCO4, one batch id), guarded by
\*        guard_T6
\*   T10  T10_output_callable: one Ni_pure and four CO (five batch ids),
\*        guard_T10
UnitPlaces == {"P_impure_Ni", "P_decomposer", "P_pure_Ni", "P_CO_recycle"}

UnitTransitions ==
    [name \in {"T1", "T6", "T10"} |->
        CASE name = "T1" -> Transition(<<>>, <<OutWeight("P_impure_Ni", 1)>>, NoGuard)
          [] name = "T6" -> Transition(<<In("P_impure_Ni", 1)>>,
                                       <<OutRule("P_decomposer", "create_NiCO4", "P_impure_Ni")>>,
                                       [kind |-> "guard_T6", place |-> "P_impure_Ni"])
          [] OTHER -> Transition(<<In("P_decomposer", 1)>>,
                                 <<OutRule("P_pure_Ni", "T10_callable", "P_decomposer")>>,
                                 [kind |-> "guard_T10", place |-> "P_decomposer"])]

UnitOrder == <<"T1", "T6", "T10">>

\* the tokens P_impure_Ni of the unit net may be seeded with
UnitSeeds ==
    {<<>>, <<[type |-> "Ni_ore", purity |-> 30]>>, <<[type |-> "Ni_ore", purity |-> 60]>>}

\* ---------------------------------------------------------------- the Mond net
\* build_mond_process: the places, P_condenser alone with a capacity
MondPlaces ==
    {"P_feed_ore", "P_crush", "P_leach", "P_concentrate", "P_impure_Ni", "P_CO_feed",
     "P_carbonylation", "P_NiCO4_gas", "P_condenser", "P_transfer_to_decomp",
     "P_decomposer", "P_pure_Ni", "P_CO_recycle", "P_scrubber", "P_offgas",
     "P_quality_check", "P_storage"}

\* Place("P_condenser", capacity=5)
CondenserCapacity == 5

\* the transitions T1..T14 of build_mond_process
MondOrder ==
    <<"T1", "T2", "T3", "T4", "T5", "T6", "T7", "T8", "T9", "T10", "T11", "T12", "T13",
      "T14">>

MondTransitions ==
    [name \in {MondOrder[i] : i \in 1..Len(MondOrder)} |->
        CASE name = "T1" -> Transition(<<>>, <<OutWeight("P_feed_ore", 1)>>, NoGuard)
          [] name = "T2" -> Transition(<<In("P_feed_ore", 1)>>, <<OutWeight("P_crush", 1)>>, NoGuard)
          [] name = "T3" -> Transition(<<In("P_crush", 1)>>, <<OutWeight("P_concentrate", 1)>>,
                                       NoGuard)
          [] name = "T4" -> Transition(<<In("P_concentrate", 1)>>,
                                       <<OutWeight("P_impure_Ni", 1)>>, NoGuard)
          [] name = "T5" -> Transition(<<>>, <<OutWeight("P_CO_feed", 4)>>, NoGuard)
          [] name = "T6" -> Transition(<<In("P_impure_Ni", 1), In("P_CO_feed", 4)>>,
                                       <<OutRule("P_NiCO4_gas", "create_NiCO4", "P_impure_Ni")>>,
                                       [kind |-> "guard_T6", place |-> "P_impure_Ni"])
          [] name = "T7" -> Transition(<<In("P_NiCO4_gas", 1)>>, <<OutWeight("P_condenser", 1)>>,
                                       NoGuard)
          [] name = "T8" -> Transition(<<In("P_condenser", 1)>>,
                                       <<OutWeight("P_transfer_to_decomp", 1)>>, NoGuard)
          [] name = "T9" -> Transition(<<In("P_transfer_to_decomp", 1)>>,
                                       <<OutWeight("P_decomposer", 1)>>, NoGuard)
          [] name = "T10" -> Transition(<<In("P_decomposer", 1)>>,
                                        <<OutRule("P_pure_Ni", "T10_callable", "P_decomposer")>>,
                                        [kind |-> "guard_T10", place |-> "P_decomposer"])
          [] name = "T11" -> Transition(<<In("P_CO_recycle", 1)>>, <<OutWeight("P_CO_feed", 1)>>,
                                        NoGuard)
          [] name = "T12" -> Transition(<<In("P_pure_Ni", 1)>>,
                                        <<OutRule("P_storage", "T12_callable", "P_pure_Ni")>>,
                                        NoGuard)
          [] name = "T13" -> Transition(<<In("P_scrubber", 1)>>, <<OutWeight("P_offgas", 1)>>,
                                        NoGuard)
          [] OTHER -> Transition(<<In("P_NiCO4_gas", 1)>>, <<OutWeight("P_scrubber", 1)>>,
                                 NoGuard)]

\* "for i in range(10)" and "for i in range(40)" of the initial marking
OreCount == 10
COCount == 40

\* the initial marking: Ni ore tokens ORE001.. of purity 0.6 in P_feed_ore,
\* CO tokens CO001.. in P_CO_feed, objects numbered in the order they are made
Fmt03d(n) ==
    LET d == Digits(n)
    IN  IF Len(d) >= 3 THEN d ELSE [i \in 1..(3 - Len(d)) |-> 0] \o d
OreTokens(n) ==
    [i \in 1..n |-> ColouredToken(i - 1, "Ni_ore", <<"ORE", Fmt03d(i)>>, 1, None, 60)]
FeedTokens(n, first) ==
    [i \in 1..n |-> ColouredToken(first + i - 1, "CO", <<"CO", Fmt03d(i)>>, 1, None, None)]

\* the tokens the chain net may be seeded with, place by place
ChainSeeds(place) ==
    CASE place = "P_impure_Ni" ->
            {<<>>, <<[type |-> "Ni_ore", purity |-> 30]>>, <<[type |-> "Ni_ore", purity |-> 60]>>}
      [] place = "P_NiCO4_gas" -> {<<>>, <<[type |-> "NiCO4", purity |-> None]>>}
      [] place = "P_condenser" -> {<<>>, <<[type |-> "CO", purity |-> None]>>}
      [] place = "P_pure_Ni" ->
            {<<>>, <<[type |-> "Ni_pure", purity |-> 99]>>, <<[type |-> "Ni_pure", purity |-> None]>>}
      [] OTHER -> {<<>>}

\* the tokens a caller seeds a place with
SeedKinds(place) ==
    CASE place = "A" -> {[type |-> "A", purity |-> None]}
      [] place = "B" -> {}
      [] place = "P_impure_Ni" ->
            {[type |-> "Ni_ore", purity |-> 30], [type |-> "Ni_ore", purity |-> 60]}
      [] OTHER -> {[type |-> "NiCO4", purity |-> None]}

\* the n tokens a caller builds for a place
NewTokens(kind, n, first) ==
    [i \in 1..n |-> ColouredToken(first + i - 1, kind.type, Uuid(first + i - 1), 1, None, kind.purity)]

\* ---------------------------------------------------------------- state
Net ==
    [places |-> places, transitions |-> transitions, stats |-> stats,
     global_time |-> global_time, batch_counter |-> batch_counter, nextObj |-> nextObj]

SetNet(N) ==
    /\ places' = N.places
    /\ transitions' = N.transitions
    /\ stats' = N.stats
    /\ global_time' = N.global_time
    /\ batch_counter' = N.batch_counter
    /\ nextObj' = N.nextObj

Idle == [active |-> FALSE, steps |-> 0, step |-> 0, policy |-> "", t0 |-> 0,
         fired |-> 0, seen |-> {}]

\* the value the last call returned when a property reads it, and the
\* position of a fire call that is followed gate by gate
NoFrame ==
    [pc |-> "none", name |-> "", args |-> <<>>, ret |-> <<>>, pre |-> <<>>, sel |-> <<>>]

\* no find_sequence_bfs call in progress
NoBfs ==
    [phase |-> "idle", goal |-> "", max_depth |-> 0, store |-> <<>>, queue |-> <<>>,
     cur |-> 0, seq |-> <<>>, todo |-> <<>>, nexth |-> 0, result |-> <<>>, found |-> FALSE,
     pos |-> 0, mind |-> None]

Call(op, name, r) ==
    [op |-> op, name |-> name, ok |-> r.ok, info |-> r.info, err |-> r.err,
     sel |-> r.sel]

\* PetriNet.__init__, then add_place and add_transition for the net under test
Init ==
    /\ \E c \in 0..MaxCap :
          places = [p \in PlaceNames |-> Place(IF p = "P_condenser" THEN c ELSE None)]
    /\ transitions = NetTransitions
    /\ stats = [k \in {StatKey(t) : t \in DOMAIN NetTransitions} |-> 0]
    /\ global_time = 0
    /\ batch_counter = 0
    /\ nextObj = 0
    /\ run = Idle
    /\ last = [op |-> "init", name |-> "", ok |-> TRUE, info |-> "", err |-> "none",
               sel |-> <<>>]
    /\ bfs = NoBfs
    /\ frame = NoFrame

\* the chain net after construction and seeding: tokens added one by one
\* with add_tokens(token)
InitChain ==
    /\ \E c \in 0..MaxCap :
       \E imp \in ChainSeeds("P_impure_Ni") :
       \E gas \in ChainSeeds("P_NiCO4_gas") :
       \E pure \in ChainSeeds("P_pure_Ni") :
       \E cond \in {k \in ChainSeeds("P_condenser") : Len(k) <= c} :
          /\ places =
                [p \in ChainPlaces |->
                    CASE p = "P_impure_Ni" ->
                            [Place(None) EXCEPT !.tokens = NewTokens(imp[1], Len(imp), 0)]
                      [] p = "P_NiCO4_gas" ->
                            [Place(None) EXCEPT !.tokens = NewTokens(gas[1], Len(gas), Len(imp))]
                      [] p = "P_pure_Ni" ->
                            [Place(None) EXCEPT !.tokens =
                                NewTokens(pure[1], Len(pure), Len(imp) + Len(gas))]
                      [] p = "P_condenser" ->
                            [Place(c) EXCEPT !.tokens =
                                NewTokens(cond[1], Len(cond), Len(imp) + Len(gas) + Len(pure))]
                      [] OTHER -> Place(None)]
          /\ nextObj = Len(imp) + Len(gas) + Len(pure) + Len(cond)
    /\ transitions = Registered(ChainTransitions, ChainOrder)
    /\ stats = [k \in {StatKey(t) : t \in DOMAIN ChainTransitions} |-> 0]
    /\ global_time = 0
    /\ batch_counter = 0
    /\ run = Idle
    /\ last = [op |-> "init", name |-> "", ok |-> TRUE, info |-> "", err |-> "none",
               sel |-> <<>>]
    /\ bfs = NoBfs
    /\ frame = NoFrame

\* the unit net after construction and seeding
InitUnit ==
    /\ \E imp \in UnitSeeds :
          /\ places =
                [p \in UnitPlaces |->
                    IF p = "P_impure_Ni"
                    THEN [Place(None) EXCEPT !.tokens = NewTokens(imp[1], Len(imp), 0)]
                    ELSE Place(None)]
          /\ nextObj = Len(imp)
    /\ transitions = Registered(UnitTransitions, UnitOrder)
    /\ stats = [k \in {StatKey(t) : t \in DOMAIN UnitTransitions} |-> 0]
    /\ global_time = 0
    /\ batch_counter = 0
    /\ run = Idle
    /\ last = [op |-> "init", name |-> "", ok |-> TRUE, info |-> "", err |-> "none",
               sel |-> <<>>]
    /\ bfs = NoBfs
    /\ frame = NoFrame

\* the Mond net as build_mond_process returns it
BuildMondProcess ==
    [places |->
        [p \in MondPlaces |->
            CASE p = "P_feed_ore" -> [Place(None) EXCEPT !.tokens = OreTokens(OreCount)]
              [] p = "P_CO_feed" ->
                    [Place(None) EXCEPT !.tokens = FeedTokens(COCount, OreCount)]
              [] p = "P_condenser" -> Place(CondenserCapacity)
              [] OTHER -> Place(None)],
     transitions |-> Registered(MondTransitions, MondOrder),
     stats |-> [k \in {StatKey(t) : t \in DOMAIN MondTransitions} |-> 0],
     global_time |-> 0,
     batch_counter |-> 0,
     nextObj |-> OreCount + COCount]

\* the program holds the net build_mond_process() returned: MondEnv() of
\* the agent, and "net = build_mond_process()" of main
InitMond ==
    /\ \E N \in {BuildMondProcess} :
          /\ places = N.places
          /\ transitions = N.transitions
          /\ stats = N.stats
          /\ global_time = N.global_time
          /\ batch_counter = N.batch_counter
          /\ nextObj = N.nextObj
    /\ run = Idle
    /\ last = [op |-> "init", name |-> "", ok |-> TRUE, info |-> "", err |-> "none",
               sel |-> <<>>]
    /\ bfs = NoBfs
    /\ frame = NoFrame

\* token objects one firing of a transition can allocate
RECURSIVE AllocFrom(_, _)
AllocFrom(outputs, i) ==
    IF i > Len(outputs) THEN 0
    ELSE (CASE outputs[i].kind = "weight" -> outputs[i].w
            [] outputs[i].kind = "T10_callable" -> 5
            [] OTHER -> 1) + AllocFrom(outputs, i + 1)
AllocOf(tr) == AllocFrom(tr.outputs, 1)

\* token objects a behaviour may allocate: the net with the source
\* transition T5 allocates without end and is cut at MaxObj; the chain net
\* is left to run dry; a run of auto_run on the Mond net is cut by its
\* clock alone (at most five objects an iteration)
ObjLimit ==
    IF "T14" \in DOMAIN transitions
    THEN OreCount + COCount + (IF run.active THEN 5 * MaxMondTime ELSE MaxMond)
    ELSE IF "T5" \in DOMAIN transitions THEN MaxObj
    ELSE IF "T1" \in DOMAIN transitions THEN MaxObj + MaxUnit
    ELSE MaxObj + MaxChain

\* the firings an agent asks of one transition of the Mond net are cut at
\* MaxFire
FireOpen(name) == transitions[name].fired_count < MaxFire

\* an iteration of auto_run is followed when each transition it may choose
\* is within the bounds: the objects it allocates, and for the Mond net the
\* firings of the transitions without input place, cut at MaxRunSource
WithinBounds(c) ==
    /\ nextObj + AllocOf(transitions[c]) <= ObjLimit
    /\ ("T14" \in DOMAIN transitions /\ transitions[c].inputs = <<>>) =>
           transitions["T1"].fired_count + transitions["T5"].fired_count < MaxRunSource

\* ---------------------------------------------------------------- actions
\* net.step_fire(name)
StepFireCall(name) ==
    /\ ~run.active
    /\ name \in DOMAIN transitions => nextObj + AllocOf(transitions[name]) <= ObjLimit
    /\ \E d \in Draws : \E r \in {StepFireResult(name, Drawn(Net, d))} :
           /\ SetNet(r.net)
           /\ last' = Call("step_fire", name, r)
    /\ frame' = NoFrame
    /\ UNCHANGED run

StepFire(name) ==
    /\ bfs.phase = "idle"
    /\ frame.pc = "none"
    /\ StepFireCall(name)
    /\ UNCHANGED bfs

\* net.transitions[name].fire(net), as find_sequence_bfs calls it
DirectFire(name) ==
    /\ ~run.active
    /\ nextObj + AllocOf(transitions[name]) <= ObjLimit
    /\ \E d \in Draws : \E r \in {Fire(name, Drawn(Net, d))} :
           /\ SetNet(r.net)
           /\ last' = Call("fire", name, r)
    /\ UNCHANGED <<run, bfs, frame>>

\* net.places[p].add_tokens([t1, ..., tn])
AddList(p, kind, n) ==
    /\ ~run.active
    /\ nextObj + n <= MaxObj
    /\ \E r \in {AddTokensList(places[p], NewTokens(kind, n, nextObj))} :
           /\ places' = [places EXCEPT ![p] = r.place]
           /\ last' = [op |-> "add_list", name |-> p, ok |-> r.err = "none",
                       info |-> "", err |-> r.err, sel |-> <<>>]
    /\ nextObj' = nextObj + n
    /\ UNCHANGED <<transitions, stats, global_time, batch_counter, run, bfs, frame>>

\* net.places[p].add_tokens(t)
AddOne(p, kind) ==
    /\ ~run.active
    /\ nextObj + 1 <= MaxObj
    /\ \E r \in {AddTokensOne(places[p], NewTokens(kind, 1, nextObj)[1])} :
           /\ places' = [places EXCEPT ![p] = r.place]
           /\ last' = [op |-> "add_one", name |-> p, ok |-> r.err = "none",
                       info |-> "", err |-> r.err, sel |-> <<>>]
    /\ nextObj' = nextObj + 1
    /\ frame' = NoFrame
    /\ UNCHANGED <<transitions, stats, global_time, batch_counter, run, bfs>>

\* "self.global_time += 1.0" at the end of an iteration of auto_run, after
\* the attempt returned r (fired or rejected)
TickOnlyFired(r) == IF r.ok THEN [r.net EXCEPT !.global_time = @ + 1] ELSE r.net
Tick(r) == [r.net EXCEPT !.global_time = @ + 1]

\* "for step in range(steps)": the loop goes on to the next iteration
\* while one is left, whatever the attempt returned
NextIterationStopOnReject(rn, r, enabled) ==
    IF rn.step + 1 < rn.steps /\ r.ok
    THEN [rn EXCEPT !.step = @ + 1,
                    !.fired = @ + (IF r.ok THEN 1 ELSE 0),
                    !.seen = @ \cup enabled]
    ELSE Idle
NextIteration(rn, r, enabled) ==
    IF rn.step + 1 < rn.steps
    THEN [rn EXCEPT !.step = @ + 1,
                    !.fired = @ + (IF r.ok THEN 1 ELSE 0),
                    !.seen = @ \cup enabled]
    ELSE Idle

\* priority_names of auto_run
PriorityNames == <<"T6", "T10", "T11", "T8", "T7">>

\* the transitions auto_run may choose among the enabled ones
ChoicesNoPriority(policy, enabled) == enabled
ChoicesUnchecked(policy, enabled) ==
    IF policy = "prioritise" THEN {PriorityNames[1]} ELSE enabled
ChoicesAnyPriority(policy, enabled) ==
    IF policy = "prioritise" /\ \E i \in 1..Len(PriorityNames) : PriorityNames[i] \in enabled
    THEN {PriorityNames[i] : i \in {j \in 1..Len(PriorityNames) : PriorityNames[j] \in enabled}}
    ELSE enabled
Choices(policy, enabled) ==
    IF policy = "prioritise" /\ \E i \in 1..Len(PriorityNames) : PriorityNames[i] \in enabled
    THEN {PriorityNames[CHOOSE i \in 1..Len(PriorityNames) :
                /\ PriorityNames[i] \in enabled
                /\ \A j \in 1..(i - 1) : PriorityNames[j] \notin enabled]}
    ELSE enabled

\* net.auto_run(steps, policy): the call, up to the first iteration
AutoRunStart(steps, policy) ==
    /\ ~run.active
    /\ bfs.phase = "idle"
    /\ frame.pc = "none"
    /\ global_time + steps <= (IF "T14" \in DOMAIN transitions THEN MaxMondTime ELSE MaxTime)
    /\ run' = IF steps > 0
              THEN [active |-> TRUE, steps |-> steps, step |-> 0, policy |-> policy,
                    t0 |-> global_time, fired |-> 0, seen |-> {}]
              ELSE Idle
    /\ last' = [op |-> "auto_run", name |-> "", ok |-> TRUE, info |-> "start",
                err |-> "none", sel |-> <<>>]
    /\ UNCHANGED <<places, transitions, stats, global_time, batch_counter, nextObj, bfs,
                   frame>>

\* one iteration of the loop of auto_run: halt when nothing is enabled,
\* otherwise choose, fire, count, tick
AutoRunStep ==
    /\ run.active
    /\ \E enabled \in {GetEnabledTransitions(Net)} :
           IF enabled = {}
           THEN /\ run' = Idle
                /\ last' = [op |-> "auto_run", name |-> "", ok |-> TRUE, info |-> "halt",
                            err |-> "none", sel |-> <<>>]
                /\ UNCHANGED <<places, transitions, stats, global_time, batch_counter, nextObj>>
           ELSE \E chosen \in Choices(run.policy, enabled) :
                /\ \A c \in Choices(run.policy, enabled) : WithinBounds(c)
                /\ \E d \in Draws : \E r \in {CountFired(chosen, Fire(chosen, Drawn(Net, d)))} :
                       IF r.err # "none"
                       THEN /\ SetNet(r.net)
                            /\ run' = Idle
                            /\ last' = Call("auto_run", chosen, r)
                       ELSE /\ SetNet(Tick(r))
                            /\ run' = NextIteration(run, r, enabled)
                            /\ last' = Call("auto_run", chosen, r)
    /\ UNCHANGED <<bfs, frame>>

Policies == {"random", "prioritise", "other"}

\* ---------------------------------------------------------------- find_sequence_bfs
\* PetriNet.status_snapshot
StatusSnapshotNonEmpty(N) ==
    [p \in {q \in DOMAIN N.places : Count(N.places[q]) > 0} |-> Count(N.places[p])]
StatusSnapshot(N) == [p \in DOMAIN N.places |-> Count(N.places[p])]

\* the goal predicates callers pass: at least one token in the named place
\* (snapshot.get(place, 0) >= 1)
Goals == {"P_storage", "P_pure_Ni", "P_condenser"}
GoalHolds(goal, snap) == goal \in DOMAIN snap /\ snap[goal] >= 1

\* [t for t in transitions.values() if t.is_enabled(net)], in dict order
EnabledList(N) ==
    LET en == GetEnabledTransitions(N)
        before(t) == {u \in en : N.transitions[u].pos < N.transitions[t].pos}
    IN  [i \in 1..Cardinality(en) |-> CHOOSE t \in en : Cardinality(before(t)) = i - 1]

\* the markings one successful firing away from a marking of S, whatever
\* the quality check draws
SuccessorsOf(S) ==
    LET fires == UNION {{Fire(t, Drawn(N, d)) : t \in GetEnabledTransitions(N), d \in Draws} :
                            N \in S}
    IN  {Undrawn(r.net) : r \in {f \in fires : f.ok}}

\* the least number d <= max_depth of successful firings that lead from a
\* marking of S (reached by k firings) to a marking satisfying the goal;
\* None when there is none
RECURSIVE MinDepth(_, _, _, _)
MinDepth(S, k, goal, max_depth) ==
    IF \E N \in S : GoalHolds(goal, StatusSnapshot(N)) THEN k
    ELSE IF k >= max_depth \/ S = {} THEN None
    ELSE MinDepth(SuccessorsOf(S), k + 1, goal, max_depth)

\* net_copy = deepcopy(current_net): the object fire is called on is the
\* fresh copy, not the dequeued net
CopyTargetAlias(current, fresh) == current
CopyTarget(current, fresh) == fresh

\* "if len(seq) >= max_depth: continue"
AtMaxDepthOff(seq, max_depth) == Len(seq) > max_depth
AtMaxDepth(seq, max_depth) == Len(seq) >= max_depth

\* find_sequence_bfs(net, goal, max_depth), up to the loop: the queue starts
\* with a deep copy of the net.  store holds the net objects the search
\* made, a queue entry names one by its index.
BfsStart(goal, max_depth) ==
    /\ ~run.active
    /\ bfs.phase = "idle"
    /\ bfs' = [NoBfs EXCEPT !.phase = "search", !.goal = goal, !.max_depth = max_depth,
                            !.store = <<Net>>, !.queue = <<[h |-> 1, seq |-> <<>>]>>,
                            !.nexth = 2,
                            !.mind = MinDepth({Net}, 0, goal, max_depth)]
    /\ last' = [op |-> "bfs", name |-> "", ok |-> TRUE, info |-> "start", err |-> "none",
                sel |-> <<>>]
    /\ UNCHANGED <<places, transitions, stats, global_time, batch_counter, nextObj, run,
                   frame>>

\* the result of the search: the locals of the call are gone
BfsReturn(found, seq) ==
    [bfs EXCEPT !.phase = "done", !.found = found, !.result = seq, !.store = <<>>,
                !.queue = <<>>, !.todo = <<>>, !.seq = <<>>, !.cur = 0]

\* one turn of "while queue": return None on an empty queue; otherwise
\* dequeue, return the sequence if the goal holds, skip the state at
\* max_depth, else list its enabled transitions
BfsPop ==
    /\ bfs.phase = "search"
    /\ IF bfs.queue = <<>> THEN bfs' = BfsReturn(FALSE, <<>>)
       ELSE \E e \in {Head(bfs.queue)} :
            IF GoalHolds(bfs.goal, StatusSnapshot(bfs.store[e.h]))
            THEN bfs' = BfsReturn(TRUE, e.seq)
            ELSE IF AtMaxDepth(e.seq, bfs.max_depth)
            THEN bfs' = [bfs EXCEPT !.queue = Tail(@)]
            ELSE bfs' = [bfs EXCEPT !.queue = Tail(@), !.phase = "expand", !.cur = e.h,
                                    !.seq = e.seq, !.todo = EnabledList(bfs.store[e.h])]
    /\ last' = [op |-> "bfs", name |-> "", ok |-> TRUE, info |-> "pop", err |-> "none",
                sel |-> <<>>]
    /\ UNCHANGED <<places, transitions, stats, global_time, batch_counter, nextObj, run,
                   frame>>

\* one turn of "for t in enabled": deep-copy the current net, fire t on the
\* copy, enqueue the copy when the firing succeeded; an exception of fire
\* ends the search
BfsExpand ==
    /\ bfs.phase = "expand"
    /\ IF bfs.todo = <<>>
       THEN /\ bfs' = [bfs EXCEPT !.phase = "search"]
            /\ last' = [op |-> "bfs", name |-> "", ok |-> TRUE, info |-> "expanded",
                        err |-> "none", sel |-> <<>>]
       ELSE \E t \in {Head(bfs.todo)} :
            \E copied \in {Append(bfs.store, bfs.store[bfs.cur])} :
            \E target \in {CopyTarget(bfs.cur, bfs.nexth)} :
            \E d \in Draws :
            \E r \in {Fire(t, Drawn(copied[target], d))} :
                /\ last' = Call("bfs", t, r)
                /\ IF r.err # "none"
                   THEN bfs' = [bfs EXCEPT !.phase = "raised", !.store = <<>>, !.queue = <<>>,
                                           !.todo = <<>>, !.seq = <<>>, !.cur = 0]
                   ELSE bfs' = [bfs EXCEPT
                                   !.store = [copied EXCEPT ![target] = Undrawn(r.net)],
                                   !.nexth = @ + 1,
                                   !.todo = Tail(@),
                                   !.queue = IF r.ok
                                             THEN Append(@, [h |-> target,
                                                             seq |-> Append(bfs.seq, t)])
                                             ELSE @]
    /\ UNCHANGED <<places, transitions, stats, global_time, batch_counter, nextObj, run,
                   frame>>

\* main: "if seq: print('Found sequence:', seq) else: print('No sequence
\* found within depth.')" on the value find_sequence_bfs returned (None
\* when found is FALSE); an empty list is falsy like None
MainReport(found, seq) ==
    IF found /\ Len(seq) > 0 THEN "Found sequence:" ELSE "No sequence found within depth."

\* the caller replays the returned sequence on the net it passed:
\* net.step_fire(seq[i]) for each name in turn
Replay ==
    /\ bfs.phase = "done"
    /\ bfs.found
    /\ bfs.pos < Len(bfs.result)
    /\ StepFireCall(bfs.result[bfs.pos + 1])
    /\ bfs' = [bfs EXCEPT !.pos = @ + 1]

\* ---------------------------------------------------------------- calls on the unit net
\* names add_place and add_transition are called with: one registered in
\* the same namespace, one registered in the other
NewPlaceNames == {"P_pure_Ni", "T6"}
NewTransitionNames == {"T6", "P_pure_Ni"}

\* the transition add_transition is called with: a move of one token
\* from P_pure_Ni to P_CO_recycle
MovePure == Transition(<<In("P_pure_Ni", 1)>>, <<OutWeight("P_CO_recycle", 1)>>, NoGuard)

\* nothing but a call on the net is in progress
Quiet ==
    /\ ~run.active
    /\ bfs.phase = "idle"
    /\ frame.pc = "none"

\* net.add_place(name, capacity)
AddPlace(name, capacity) ==
    /\ Quiet
    /\ \E r \in {AddPlaceResult(Net, name, capacity)} :
           /\ SetNet(r.net)
           /\ last' = [op |-> "add_place", name |-> name, ok |-> r.err = "none",
                       info |-> "", err |-> r.err, sel |-> <<>>]
    /\ frame' = NoFrame
    /\ UNCHANGED <<run, bfs>>

\* net.add_transition(Transition(name, ...))
AddTransition(name, tr) ==
    /\ Quiet
    /\ \E r \in {AddTransitionResult(Net, name, tr)} :
           /\ SetNet(r.net)
           /\ last' = [op |-> "add_transition", name |-> name, ok |-> r.err = "none",
                       info |-> "", err |-> r.err, sel |-> <<>>]
    /\ frame' = NoFrame
    /\ UNCHANGED <<run, bfs>>

\* net.status_snapshot(); the mapping returned is kept in frame.ret
Snapshot ==
    /\ Quiet
    /\ frame' = [NoFrame EXCEPT !.ret = StatusSnapshot(Net)]
    /\ last' = [op |-> "status_snapshot", name |-> "", ok |-> TRUE, info |-> "",
                err |-> "none", sel |-> <<>>]
    /\ UNCHANGED <<places, transitions, stats, global_time, batch_counter, nextObj, run, bfs>>

\* net.next_batch_id() called by a caller; the identifier returned is kept
\* in frame.ret
NextBatchIdCall ==
    /\ Quiet
    /\ batch_counter < MaxIds
    /\ \E r \in {NextBatchId(Net)} :
           /\ SetNet(r.net)
           /\ frame' = [NoFrame EXCEPT !.ret = r.id]
    /\ last' = [op |-> "next_batch_id", name |-> "", ok |-> TRUE, info |-> "",
                err |-> "none", sel |-> <<>>]
    /\ UNCHANGED <<run, bfs>>

NextUnit ==
    \/ \E name \in DOMAIN transitions : StepFire(name)
    \/ \E name \in NewPlaceNames : \E capacity \in {None} : AddPlace(name, capacity)
    \/ \E name \in NewTransitionNames : AddTransition(name, MovePure)
    \/ Snapshot
    \/ NextBatchIdCall

SpecUnit == InitUnit /\ [][NextUnit]_vars

\* ---------------------------------------------------------------- calls on the Mond net
\* MondEnv.get_actions: the names of the count-enabled transitions
GetActions(N) == GetEnabledTransitions(N)

\* MondEnv.step(action) on an action the agent took from get_actions
EnvStep(action) ==
    /\ action \in GetActions(Net)
    /\ FireOpen(action)
    /\ StepFire(action)

\* MondEnv.reset(): the environment drops its net for a new one from
\* build_mond_process and returns get_state(), kept in frame.ret
EnvReset ==
    /\ Quiet
    /\ \E N \in {BuildMondProcess} :
           /\ SetNet(N)
           /\ frame' = [NoFrame EXCEPT !.ret = StatusSnapshot(N)]
    /\ last' = [op |-> "reset", name |-> "", ok |-> TRUE, info |-> "", err |-> "none",
                sel |-> <<>>]
    /\ UNCHANGED <<run, bfs>>

\* RuleAgent.choose_action: None when get_actions is empty, T10 or T6 when
\* listed, otherwise any of the listed actions
ChooseAction(actions) ==
    IF actions = {} THEN {"None"}
    ELSE IF "T10" \in actions THEN {"T10"}
    ELSE IF "T6" \in actions THEN {"T6"}
    ELSE actions

NextMond ==
    \/ \E action \in DOMAIN transitions : EnvStep(action)
    \/ EnvReset

SpecMond == InitMond /\ [][NextMond]_vars

\* main, the quality-check loop: after auto_run has returned, "while
\* net.places['P_pure_Ni'].count() > 0" is entered; frame.args keeps the count of P_pure_Ni and the
\* fired_count of T12 at that moment
QcStart ==
    /\ ~run.active
    /\ last.op = "auto_run"
    /\ bfs.phase = "idle"
    /\ frame.pc = "none"
    /\ frame' = [NoFrame EXCEPT !.pc = "qc",
                                !.args = <<Count(places["P_pure_Ni"]),
                                           transitions["T12"].fired_count>>]
    /\ last' = [op |-> "qc", name |-> "", ok |-> TRUE, info |-> "start", err |-> "none",
                sel |-> <<>>]
    /\ UNCHANGED <<places, transitions, stats, global_time, batch_counter, nextObj, run, bfs>>

\* one test of the loop condition and, when it holds, one iteration:
\* "ok, info = net.step_fire('T12'); if not ok: break"
QcStepBreakOnSuccess ==
    /\ frame.pc = "qc"
    /\ IF Count(places["P_pure_Ni"]) > 0
       THEN \E d \in Draws : \E r \in {StepFireResult("T12", Drawn(Net, d))} :
                /\ SetNet(r.net)
                /\ last' = Call("step_fire", "T12", r)
                /\ frame' = [frame EXCEPT !.pc = "none"]
       ELSE /\ frame' = [frame EXCEPT !.pc = "none"]
            /\ last' = [op |-> "qc", name |-> "", ok |-> TRUE, info |-> "done",
                        err |-> "none", sel |-> <<>>]
            /\ UNCHANGED <<places, transitions, stats, global_time, batch_counter, nextObj>>
    /\ UNCHANGED <<run, bfs>>
QcStep ==
    /\ frame.pc = "qc"
    /\ IF Count(places["P_pure_Ni"]) > 0
       THEN \E d \in Draws : \E r \in {StepFireResult("T12", Drawn(Net, d))} :
                /\ SetNet(r.net)
                /\ last' = Call("step_fire", "T12", r)
                /\ frame' = IF r.ok /\ r.err = "none" THEN frame
                            ELSE [frame EXCEPT !.pc = "none"]
       ELSE /\ frame' = [frame EXCEPT !.pc = "none"]
            /\ last' = [op |-> "qc", name |-> "", ok |-> TRUE, info |-> "done",
                        err |-> "none", sel |-> <<>>]
            /\ UNCHANGED <<places, transitions, stats, global_time, batch_counter, nextObj>>
    /\ UNCHANGED <<run, bfs>>

\* main on the net build_mond_process returned: net.auto_run(steps,
\* "prioritise"), then the quality-check loop
NextMondRun ==
    \/ \E steps \in 1..MaxMondTime : last.op = "init" /\ AutoRunStart(steps, "prioritise")
    \/ AutoRunStep
    \/ QcStart
    \/ QcStep

\* the loop of main is sequential code: once entered it keeps running
SpecMondRun == InitMond /\ [][NextMondRun]_vars /\ WF_vars(QcStep)

\* ---------------------------------------------------------------- calls on places
\* every token of the net
TokensOf(P) == UNION {{P[p].tokens[i] : i \in 1..Len(P[p].tokens)} : p \in DOMAIN P}

\* the token lists remove_tokens is called with: up to MaxBatch tokens of
\* the net, of the place or not, the same token twice included
RemoveArgs == UNION {[1..n -> TokensOf(places)] : n \in 0..MaxBatch}

\* net.places[p].remove_tokens(toks); the argument is kept in frame.args
RemoveCall(p, toks) ==
    /\ Quiet
    /\ \E r \in {RemoveTokens(places[p], toks)} :
           /\ places' = [places EXCEPT ![p] = r.place]
           /\ last' = [op |-> "remove_tokens", name |-> p, ok |-> r.err = "none",
                       info |-> "", err |-> r.err, sel |-> <<>>]
    /\ frame' = [NoFrame EXCEPT !.args = toks]
    /\ UNCHANGED <<transitions, stats, global_time, batch_counter, nextObj, run, bfs>>

\* net.places[p].clear()
ClearCall(p) ==
    /\ Quiet
    /\ places' = [places EXCEPT ![p].tokens = <<>>]
    /\ last' = [op |-> "clear", name |-> p, ok |-> TRUE, info |-> "", err |-> "none",
                sel |-> <<>>]
    /\ frame' = NoFrame
    /\ UNCHANGED <<transitions, stats, global_time, batch_counter, nextObj, run, bfs>>

\* the predicates find_tokens is called with: none, or a test of the type
FindConds == {NoCond, "Ni_ore"}

\* net.places[p].find_tokens(cond, limit); the arguments are kept in
\* frame.args and the list returned in frame.ret
FindCall(p, cond, limit) ==
    /\ Quiet
    /\ frame' = [NoFrame EXCEPT !.args = <<cond, limit>>,
                                !.ret = FindTokens(places[p], cond, limit)]
    /\ last' = [op |-> "find_tokens", name |-> p, ok |-> TRUE, info |-> "",
                err |-> "none", sel |-> <<>>]
    /\ UNCHANGED <<places, transitions, stats, global_time, batch_counter, nextObj, run, bfs>>

\* ---------------------------------------------------------------- fire, gate by gate
\* the gate of fire that follows a gate passed: is_enabled, select_tokens,
\* the guard, then removal and outputs
NextGateApplyFirst(pc) ==
    CASE pc = "counts" -> "select"
      [] pc = "select" -> "apply"
      [] pc = "apply" -> "guard"
      [] OTHER -> "none"
NextGate(pc) ==
    CASE pc = "counts" -> "select"
      [] pc = "select" -> "guard"
      [] pc = "guard" -> "apply"
      [] OTHER -> "none"

\* net.transitions[name].fire(net) is entered; frame.pre keeps the net as
\* it is at the call
FollowFire(name) ==
    /\ Quiet
    /\ nextObj + AllocOf(transitions[name]) <= ObjLimit
    /\ frame' = [NoFrame EXCEPT !.pc = "counts", !.name = name, !.pre = Net]
    /\ last' = [op |-> "enter", name |-> name, ok |-> TRUE, info |-> "", err |-> "none",
                sel |-> <<>>]
    /\ UNCHANGED <<places, transitions, stats, global_time, batch_counter, nextObj, run, bfs>>

\* fire returns r
FireReturn(r) ==
    /\ SetNet(r.net)
    /\ last' = Call("fire", frame.name, r)
    /\ frame' = NoFrame

\* the gate at frame.pc is passed with net N and selection sel
FireAdvance(N, sel) ==
    IF NextGate(frame.pc) = "none" THEN FireReturn(Fired(N, sel))
    ELSE /\ SetNet(N)
         /\ last' = [op |-> "gate", name |-> frame.name, ok |-> TRUE, info |-> frame.pc,
                     err |-> "none", sel |-> <<>>]
         /\ frame' = [frame EXCEPT !.pc = NextGate(frame.pc), !.sel = sel]

\* the gate of Transition.fire at frame.pc
FireGate ==
    /\ frame.pc # "none"
    /\ \E tr \in {transitions[frame.name]} :
           CASE frame.pc = "counts" ->
                   IF ~IsEnabled(tr, Net) THEN FireReturn(Rejected(Net, "not enabled by counts"))
                   ELSE FireAdvance(Net, frame.sel)
             [] frame.pc = "select" ->
                   \E s \in {SelectTokens(tr, Net)} :
                       IF ~s.ok THEN FireReturn(Rejected(Net, "couldn't select tokens"))
                       ELSE FireAdvance(Net, s.sel)
             [] frame.pc = "guard" ->
                   IF tr.guard.kind # "none" /\ ~GuardHolds(tr.guard, Net, frame.sel)
                   THEN FireReturn(Rejected(Net, "guard blocked firing"))
                   ELSE FireAdvance(Net, frame.sel)
             [] OTHER ->
                   \E d \in Draws : \E r \in {Apply(frame.name, Drawn(Net, d), frame.sel)} :
                       IF ~r.ok THEN FireReturn(r) ELSE FireAdvance(r.net, frame.sel)
    /\ UNCHANGED <<run, bfs>>

\* the unit net under fire calls followed gate by gate
NextGates ==
    \/ \E name \in DOMAIN transitions : FollowFire(name)
    \/ FireGate

SpecGates == InitUnit /\ [][NextGates]_vars

\* the tokens callers add to the places A and B before they call
\* remove_tokens and find_tokens on place A
PlaceKinds == {[type |-> "A", purity |-> None], [type |-> "Ni_ore", purity |-> 60]}

\* two places of a net without transitions
InitPlace ==
    /\ places = [p \in {"A", "B"} |-> Place(None)]
    /\ transitions = [t \in {} |-> NoGuard]
    /\ stats = [k \in {} |-> 0]
    /\ global_time = 0
    /\ batch_counter = 0
    /\ nextObj = 0
    /\ run = Idle
    /\ last = [op |-> "init", name |-> "", ok |-> TRUE, info |-> "", err |-> "none",
               sel |-> <<>>]
    /\ bfs = NoBfs
    /\ frame = NoFrame

NextPlace ==
    \/ \E p \in {"A", "B"} : \E kind \in PlaceKinds : nextObj < MaxTokens /\ AddOne(p, kind)
    \/ \E toks \in RemoveArgs : RemoveCall("A", toks)
    \/ \E p \in {"A", "B"} : ClearCall(p)
    \/ \E cond \in FindConds : \E limit \in {None} \cup 0..MaxBatch : FindCall("A", cond, limit)

SpecPlace == InitPlace /\ [][NextPlace]_vars

\* find_sequence_bfs on the unit net, whose transition T1 is enabled in
\* every marking, and the replay of what it returns
NextSearch ==
    \/ \E goal \in Goals : \E max_depth \in 0..MaxDepth : BfsStart(goal, max_depth)
    \/ BfsPop
    \/ BfsExpand
    \/ Replay

\* the loop of find_sequence_bfs keeps running once entered: each turn of
\* "while queue" and of "for t in enabled" that can be taken is taken
SpecSearch ==
    InitUnit /\ [][NextSearch]_vars /\ WF_vars(BfsPop) /\ WF_vars(BfsExpand)

NextChain ==
    \/ \E steps \in 0..MaxSteps : \E policy \in Policies : AutoRunStart(steps, policy)
    \/ AutoRunStep
    \/ \E goal \in Goals : \E max_depth \in 0..MaxDepth : BfsStart(goal, max_depth)
    \/ BfsPop
    \/ BfsExpand
    \/ Replay

SpecChain == InitChain /\ [][NextChain]_vars

Next ==
    \/ \E name \in DOMAIN transitions \cup {"T_unknown"} : StepFire(name)
    \/ \E name \in DOMAIN transitions : DirectFire(name)
    \/ \E p \in DOMAIN places : \E kind \in SeedKinds(p) : \E n \in 1..MaxBatch : AddList(p, kind, n)
    \/ \E p \in DOMAIN places : \E kind \in SeedKinds(p) : AddOne(p, kind)
    \/ \E steps \in 0..MaxSteps : \E policy \in Policies : AutoRunStart(steps, policy)
    \/ AutoRunStep
    \/ \E p \in DOMAIN places : ClearCall(p)

Spec == Init /\ [][Next]_vars

\* ================================================================ properties
\* A step is a call of the firing protocol of t when the call recorded
\* after it is a fire of t (directly, through step_fire, or as the
\* iteration of auto_run that chose t).
FireOps == {"fire", "step_fire", "auto_run"}
FireCall(t) ==
    /\ last'.op \in FireOps
    /\ last'.name = t
    /\ last'.info \notin {"start", "halt"}

\* some input place of t holds fewer tokens than its weight
InputShort(t) ==
    \E i \in 1..Len(transitions[t].inputs) :
        Len(places[transitions[t].inputs[i].place].tokens) < transitions[t].inputs[i].w

\* everything of the net but the clock
NetSame == UNCHANGED <<places, transitions, stats, batch_counter>>

\* C1: in every reachable state, every place with a capacity holds at most
\* that many tokens, also after an add or a firing that raised the capacity
\* error.
C1_CapacityRespected ==
    \A p \in DOMAIN places :
        places[p].capacity # None => Len(places[p].tokens) <= places[p].capacity

\* C1 witness: a firing ended in the capacity error on the full condenser
C1_Witness ==
    /\ last.op \in FireOps
    /\ last.err = "capacity exceeded"
    /\ places["P_condenser"].capacity >= 1
    /\ Len(places["P_condenser"].tokens) = places["P_condenser"].capacity

\* C2: a fire of a transition that has an input place short of its weight
\* returns the count-check rejection (no error) and changes no place, no
\* fired_count, no statistic, not the batch counter.
C2_DisabledFireRejects ==
    [][\A t \in DOMAIN transitions :
          (FireCall(t) /\ InputShort(t)) =>
              /\ last'.ok = FALSE
              /\ last'.err = "none"
              /\ last'.info = "not enabled by counts"
              /\ NetSame
              /\ UNCHANGED global_time]_vars

\* C2 witness: a two-input transition was rejected on counts while its first
\* input place held enough tokens
C2_Witness ==
    /\ last.op \in {"fire", "step_fire"}
    /\ last.name = "T6"
    /\ last.info = "not enabled by counts"
    /\ Len(places["A"].tokens) >= 1
    /\ Len(places["P_impure_Ni"].tokens) = 0

\* the guard of t rejects the tokens the selection picks in this marking
GuardRejects(t) ==
    /\ ~InputShort(t)
    /\ transitions[t].guard.kind = "guard_T6"
    /\ LET toks == places[transitions[t].guard.place].tokens
       IN  /\ Len(toks) >= 1
           /\ toks[1].purity # None
           /\ toks[1].purity < 50

\* C3: when the guard of a count-enabled transition returns false, fire
\* returns the guard-blocked rejection and the net is as before the call:
\* places (tokens and their order), fired counts, statistics, batch counter.
C3_GuardBlockLeavesNet ==
    [][\A t \in DOMAIN transitions :
          (FireCall(t) /\ GuardRejects(t)) =>
              /\ last'.ok = FALSE
              /\ last'.err = "none"
              /\ last'.info = "guard blocked firing"
              /\ NetSame]_vars

\* C3 witness: a firing was blocked by the guard with both input places
\* holding enough tokens
C3_Witness ==
    /\ last.op \in FireOps
    /\ last.info = "guard blocked firing"
    /\ Len(places["A"].tokens) >= 1
    /\ places["P_impure_Ni"].tokens[1].purity = 30

\* the token objects a step takes out of place p
RemovedFrom(p) == Uids(places[p].tokens) \ Uids(places'[p].tokens)

\* C4 (as claimed): every successful fire removes from each input place
\* exactly as many tokens as the declared weight, weight 0 included.
C4_RemovesExactlyWeight ==
    [][\A t \in DOMAIN transitions :
          (FireCall(t) /\ last'.ok) =>
              \A i \in 1..Len(transitions[t].inputs) :
                  Cardinality(RemovedFrom(transitions[t].inputs[i].place))
                      = transitions[t].inputs[i].w]_vars

\* C5 (as claimed): fire is atomic; whatever its outcome (success, rejection,
\* structural error) no call of fire leaves a marking in which input tokens
\* have been removed and the firing was not completed.
C5_FireIsAtomic ==
    [][\A t \in DOMAIN transitions :
          (FireCall(t) /\ ~last'.ok) =>
              \A p \in DOMAIN places : RemovedFrom(p) = {}]_vars

\* the input places of t all hold at least their weight
CountsSuffice(t) ==
    \A i \in 1..Len(transitions[t].inputs) :
        Len(places[transitions[t].inputs[i].place].tokens) >= transitions[t].inputs[i].w

\* C6: is_enabled is exactly the count check (no guard, no output
\* capacity), get_enabled_transitions returns exactly the transitions that
\* pass it, and a transition without input places is always among them.
C6_EnabledIsCountCheck ==
    /\ \A t \in DOMAIN transitions : IsEnabled(transitions[t], Net) <=> CountsSuffice(t)
    /\ GetEnabledTransitions(Net) = {t \in DOMAIN transitions : CountsSuffice(t)}
    /\ \A t \in DOMAIN transitions :
          transitions[t].inputs = <<>> => t \in GetEnabledTransitions(Net)

\* C6 witness: auto_run took a transition from the enabled set, its guard
\* rejected it, and it is still returned as enabled; the transition without
\* inputs is enabled with its output place full
C6_Witness ==
    /\ last.op = "auto_run"
    /\ last.name = "T6"
    /\ last.info = "guard blocked firing"
    /\ "T6" \in GetEnabledTransitions(Net)
    /\ "T5" \in GetEnabledTransitions(Net)
    /\ Len(places["P_condenser"].tokens) = places["P_condenser"].capacity

\* C7 (as claimed): add_tokens with a list that does not fit raises the
\* capacity error and leaves the place as it was.
C7_AddListAllOrNothing ==
    [][(last'.op = "add_list" /\ last'.err = "capacity exceeded") =>
          places' = places]_vars

\* C8: add_tokens with one token appends it (count + 1, the rest untouched)
\* while the place is below its capacity or has none, and at count =
\* capacity raises the capacity error and leaves the token sequence as is.
C8_AddOneAtCapacity ==
    [][\A p \in DOMAIN places :
          (last'.op = "add_one" /\ last'.name = p) =>
              /\ \A q \in DOMAIN places \ {p} : places'[q] = places[q]
              /\ places'[p].capacity = places[p].capacity
              /\ IF places[p].capacity # None
                    /\ Len(places[p].tokens) >= places[p].capacity
                 THEN /\ last'.err = "capacity exceeded"
                      /\ places'[p].tokens = places[p].tokens
                 ELSE /\ last'.err = "none"
                      /\ Len(places'[p].tokens) = Len(places[p].tokens) + 1
                      /\ SubSeq(places'[p].tokens, 1, Len(places[p].tokens))
                            = places[p].tokens
                      /\ places'[p].tokens[Len(places'[p].tokens)].uid = nextObj]_vars

\* C8 witness: the add of one token to the bounded place holding exactly
\* capacity >= 1 tokens was refused
C8_Witness ==
    /\ last.op = "add_one"
    /\ last.name = "P_condenser"
    /\ last.err = "capacity exceeded"
    /\ places["P_condenser"].capacity >= 1
    /\ Len(places["P_condenser"].tokens) = places["P_condenser"].capacity

\* the guard-free transitions with one input place and one integer output
\* weight on another place that has no capacity
PlainMoves ==
    {t \in DOMAIN transitions :
        /\ transitions[t].guard.kind = "none"
        /\ Len(transitions[t].inputs) = 1
        /\ Len(transitions[t].outputs) = 1
        /\ transitions[t].outputs[1].kind = "weight"
        /\ transitions[t].outputs[1].place \in DOMAIN places
        /\ transitions[t].outputs[1].place # transitions[t].inputs[1].place
        /\ places[transitions[t].outputs[1].place].capacity = None}

\* C9 (as claimed): a successful fire of a guard-free transition with input
\* weight w and output weight k on another, unbounded place leaves n - w
\* tokens in the input place and adds k tokens to the output place; in
\* scenario 1 (TA: two tokens of A in, one out to B) the token added is of
\* the type B declared for the output.
C9_ScenarioOne ==
    [][\A t \in PlainMoves :
          (FireCall(t) /\ last'.ok) =>
              LET in == transitions[t].inputs[1]
                  out == transitions[t].outputs[1]
              IN  /\ Len(places'[in.place].tokens) = Len(places[in.place].tokens) - in.w
                  /\ Len(places'[out.place].tokens) = Len(places[out.place].tokens) + out.w
                  /\ t = "TA" =>
                        places'["B"].tokens[Len(places'["B"].tokens)].type = "B"]_vars

\* C10 (as claimed): in every reachable state the firing statistic of each
\* transition equals its fired_count.
C10_StatsEqualFiredCount ==
    \A t \in DOMAIN transitions : stats[StatKey(t)] = transitions[t].fired_count

\* ---------------------------------------------------------------- find_sequence_bfs
\* the search has returned a sequence and the caller has replayed all of it
Replayed ==
    /\ bfs.phase = "done"
    /\ bfs.found
    /\ bfs.pos = Len(bfs.result)

\* C11 (as claimed): when find_sequence_bfs has returned a sequence, every
\* step_fire of its replay on the net the search was given succeeds, and the
\* marking after the last one satisfies the goal predicate, also when an
\* output rule draws a random number (the quality check T12).
C11_ReplayReachesGoal ==
    /\ (bfs.phase = "done" /\ bfs.found /\ bfs.pos > 0) =>
           (last.op = "step_fire" /\ last.ok)
    /\ Replayed => GoalHolds(bfs.goal, StatusSnapshot(Net))

\* C12 (as claimed): when some sequence of d <= max_depth successful firings
\* leads from the initial marking to a marking satisfying the goal, the
\* search ends by returning a sequence, and its length is the least such d.
C12_ReturnsShortest ==
    (bfs.phase \in {"done", "raised"} /\ bfs.mind # None) =>
        /\ bfs.phase = "done"
        /\ bfs.found
        /\ Len(bfs.result) = bfs.mind

\* C13 (as claimed): find_sequence_bfs never ends in an error; it returns a
\* list of at most max_depth names, or None, and None exactly when no
\* marking satisfying the goal was reached within max_depth firings.
C13_AlwaysReturns ==
    /\ bfs.phase # "raised"
    /\ (bfs.phase = "done" /\ bfs.found) => Len(bfs.result) <= bfs.max_depth
    /\ (bfs.phase = "done" /\ bfs.mind = None) => ~bfs.found

\* C14: while find_sequence_bfs runs, the net it was given keeps its
\* marking, token order, fired counts, statistics, clock and batch counter,
\* and a firing of the search changes no net object that existed before it
\* (the dequeued state, the states still queued, the siblings): it writes
\* only the copy made for it, and no two queue entries name the same object.
C14_BranchesOwnCopies ==
    [][(bfs.phase \in {"search", "expand"}) =>
          /\ UNCHANGED <<places, transitions, stats, global_time, batch_counter, nextObj>>
          /\ \A h \in 1..Len(bfs.store) :
                h \in 1..Len(bfs'.store) => bfs'.store[h] = bfs.store[h]
          /\ \A i, j \in 1..Len(bfs'.queue) :
                bfs'.queue[i].h = bfs'.queue[j].h => i = j]_vars

\* C14 witness: the search has fired in two branches of the same state, both
\* firings succeeded and both copies are queued, the second differing from
\* the state they were copied from
C14_Witness ==
    /\ bfs.phase = "expand"
    /\ Len(bfs.queue) >= 2
    /\ bfs.queue[Len(bfs.queue)].seq = Append(bfs.seq, last.name)
    /\ bfs.queue[Len(bfs.queue) - 1].seq # bfs.queue[Len(bfs.queue)].seq
    /\ Len(bfs.queue[Len(bfs.queue) - 1].seq) = Len(bfs.seq) + 1
    /\ last.op = "bfs" /\ last.ok
    /\ bfs.store[bfs.queue[Len(bfs.queue)].h].places # bfs.store[bfs.cur].places
    /\ places = bfs.store[1].places

\* ---------------------------------------------------------------- auto_run
\* the step is an iteration of auto_run in which a transition was attempted
\* and the attempt returned (fired or rejected)
Attempted ==
    /\ run.active
    /\ last'.op = "auto_run"
    /\ last'.info # "halt"
    /\ last'.err = "none"

\* C15: auto_run(steps=n) makes at most n iterations; every iteration whose
\* attempt returned, fired or rejected, advances the clock by exactly one;
\* a run that used all its iterations leaves the clock at its value at the
\* call plus n, with at most n successful fires among the n attempts.
C15_ClockTicksPerAttempt ==
    [][run.active =>
          /\ run.step < run.steps
          /\ global_time = run.t0 + run.step
          /\ Attempted =>
                /\ global_time' = global_time + 1
                /\ run'.active => (run'.step = run.step + 1 /\ run'.steps = run.steps)
                /\ ~run'.active =>
                      /\ global_time' = run.t0 + run.steps
                      /\ run.fired + (IF last'.ok THEN 1 ELSE 0) <= run.steps]_vars

\* C15 witness: a run of two steps whose first attempt was rejected by the
\* guard, with the clock one past its value at the call
C15_Witness ==
    /\ run.active
    /\ run.steps = 2
    /\ run.step = 1
    /\ run.fired = 0
    /\ last.op = "auto_run"
    /\ last.info = "guard blocked firing"
    /\ global_time = run.t0 + 1

\* C16: an iteration of auto_run ends the run without an attempt exactly
\* when no transition is count-enabled at its start, and then nothing of
\* the net changes, the clock included, and no error is raised; when some
\* transition is enabled one is attempted, and unless the attempt raises a
\* structural error the run goes on while iterations are left.
C16_HaltsOnlyOnDeadlock ==
    [][run.active =>
          IF GetEnabledTransitions(Net) = {}
          THEN /\ last'.info = "halt"
               /\ last'.err = "none"
               /\ ~run'.active
               /\ NetSame
               /\ UNCHANGED <<global_time, nextObj>>
          ELSE /\ last'.info # "halt"
               /\ last'.name \in DOMAIN transitions
               /\ last'.err = "none" => (run'.active <=> run.step + 1 < run.steps)]_vars

\* C16 witness: a run has fired, found nothing enabled at its next iteration
\* and halted
C16_Witness ==
    /\ last.op = "auto_run"
    /\ last.info = "halt"
    /\ ~run.active
    /\ GetEnabledTransitions(Net) = {}
    /\ global_time >= 1
    /\ \E t \in DOMAIN transitions : transitions[t].fired_count >= 1

\* C17: under policy prioritise the transition attempted is enabled, and
\* when some name of the priority list (T6, T10, T11, T8, T7) is enabled it
\* is the enabled name earliest in the list.
C17_PrioritiseOrder ==
    [][(run.active /\ run.policy = "prioritise" /\ GetEnabledTransitions(Net) # {}) =>
          /\ last'.name \in GetEnabledTransitions(Net)
          /\ \A i \in 1..Len(PriorityNames) :
                (/\ PriorityNames[i] \in GetEnabledTransitions(Net)
                 /\ \A j \in 1..(i - 1) : PriorityNames[j] \notin GetEnabledTransitions(Net))
                    => last'.name = PriorityNames[i]]_vars

\* C17 witness: T8 was attempted by a prioritise run while T7, later in
\* the list, and T12, outside the list, were enabled too
C17_Witness ==
    /\ last.op = "auto_run"
    /\ last.name = "T8"
    /\ last.ok
    /\ run.active
    /\ run.policy = "prioritise"
    /\ {"T7", "T8", "T12"} \subseteq run.seen

\* the transitions enabled at some iteration of the run so far, this one
\* included
EverEnabled == run.seen \cup GetEnabledTransitions(Net)

\* C18 (as claimed): in a prioritise run on which only the transition t is
\* ever enabled, every iteration at which t is enabled and whose attempt
\* returns fires t, so n iterations raise its fired_count by n.
C18_SoloFiresEveryStep ==
    [][\A t \in DOMAIN transitions :
          (run.active /\ run.policy = "prioritise" /\ EverEnabled = {t}
              /\ t \in GetEnabledTransitions(Net)) =>
              /\ last'.name = t
              /\ last'.err = "none" =>
                    transitions'[t].fired_count = transitions[t].fired_count + 1]_vars

\* C18 (amended): in a prioritise run on which only the transition t is
\* ever enabled, every iteration at which t is enabled attempts t; the
\* attempt raises fired_count by one when the guard accepts and leaves it
\* when the guard rejects, and the run goes on while iterations are left;
\* an attempt that raises a structural error leaves fired_count and ends
\* the run.  So the run stops before its n iterations only when t is
\* disabled or an attempt raised.
C18_SoloFiresUnlessBlocked ==
    [][\A t \in DOMAIN transitions :
          (run.active /\ run.policy = "prioritise" /\ EverEnabled = {t}
              /\ t \in GetEnabledTransitions(Net)) =>
              /\ last'.name = t
              /\ last'.err = "none" =>
                    /\ last'.ok <=> ~GuardRejects(t)
                    /\ transitions'[t].fired_count =
                          transitions[t].fired_count + (IF GuardRejects(t) THEN 0 ELSE 1)
                    /\ run'.active <=> run.step + 1 < run.steps
                    /\ run'.active =>
                          run'.fired = run.fired + (IF GuardRejects(t) THEN 0 ELSE 1)
              /\ last'.err # "none" =>
                    /\ transitions'[t].fired_count = transitions[t].fired_count
                    /\ ~run'.active]_vars

\* C18 witness: the second iteration of a prioritise run is about to start;
\* the only transition enabled so far fired at the first one
C18_Witness ==
    /\ run.active
    /\ run.policy = "prioritise"
    /\ run.step = 1
    /\ run.fired = 1
    /\ last.op = "auto_run"
    /\ last.ok
    /\ run.seen = {last.name}
    /\ transitions[last.name].fired_count = 1

\* C19: whatever the policy, the transition an iteration of auto_run
\* attempts is count-enabled in the marking at the start of the iteration.
C19_AttemptsOnlyEnabled ==
    [][(run.active /\ last'.info # "halt") =>
          /\ last'.name \in DOMAIN transitions
          /\ CountsSuffice(last'.name)
          /\ last'.info # "not enabled by counts"]_vars

\* C19 witness: under a policy string that is neither random nor
\* prioritise, and under prioritise, a run attempted a transition while
\* another one was disabled
C19_Witness ==
    /\ run.active
    /\ run.policy \in {"other", "prioritise"}
    /\ last.op = "auto_run"
    /\ last.name \in DOMAIN transitions
    /\ run.seen # {}
    /\ run.seen # DOMAIN transitions

\* C20: step_fire with an unregistered name raises the unknown-name error
\* and changes nothing of the net; with a registered name it returns what
\* the firing protocol of that transition returns and leaves the net as
\* the protocol leaves it, plus one on the statistic of a successful fire.
C20_StepFireLookup ==
    [][last'.op = "step_fire" =>
          IF last'.name \notin DOMAIN transitions
          THEN /\ last'.err = "unknown transition"
               /\ ~last'.ok
               /\ NetSame
               /\ UNCHANGED <<global_time, nextObj>>
          ELSE \E d \in Draws : \E f \in {Fire(last'.name, Drawn(Net, d))} :
               /\ last'.ok = f.ok
               /\ last'.info = f.info
               /\ last'.err = f.err
               /\ last'.sel = f.sel
               /\ places' = f.net.places
               /\ transitions' = f.net.transitions
               /\ batch_counter' = f.net.batch_counter
               /\ stats' = IF f.ok THEN IncStat(f.net.stats, StatKey(last'.name))
                                   ELSE f.net.stats
               /\ global_time' = global_time]_vars

\* C20 witness: step_fire was called with an unregistered name on a net
\* that holds tokens and has fired
C20_Witness ==
    /\ last.op = "step_fire"
    /\ last.name \notin DOMAIN transitions
    /\ last.err = "unknown transition"
    /\ \E p \in DOMAIN places : Len(places[p].tokens) >= 1
    /\ \E t \in DOMAIN transitions : transitions[t].fired_count >= 1

\* ---------------------------------------------------------------- token instances
\* the places and positions at which the token object uid resides
Residences(uid) ==
    {pi \in UNION {{<<p, i>> : i \in 1..Len(places[p].tokens)} : p \in DOMAIN places} :
        places[pi[1]].tokens[pi[2]].uid = uid}

\* every token object resides in at most one place, at one position
NoSharedInstance ==
    \A p \in DOMAIN places : \A i \in 1..Len(places[p].tokens) :
        Residences(places[p].tokens[i].uid) = {<<p, i>>}

\* the token objects resident anywhere in the net
Resident == UNION {Uids(places[p].tokens) : p \in DOMAIN places}

\* the token objects a firing selected
Selected(sel) == UNION {Uids(sel[i].toks) : i \in 1..Len(sel)}

\* C25: in every reachable state each token object resides in at most one
\* place and at one position there; after a successful fire the objects it
\* consumed reside nowhere, and every object the step brought into the net
\* did not exist before it (a fresh token or a fresh copy).
C25_NoSharedInstance ==
    [][/\ NoSharedInstance
       /\ NoSharedInstance'
       /\ \A t \in DOMAIN transitions :
             (FireCall(t) /\ last'.ok) =>
                 /\ Selected(last'.sel) \subseteq Resident
                 /\ Selected(last'.sel) \cap Resident' = {}
                 /\ \A u \in Resident' \ Resident : u >= nextObj /\ u < nextObj']_vars

\* C25 witness: the quality check has consumed a token of P_pure_Ni and put
\* a copy, another object with the same colour, into P_storage
C25_Witness ==
    /\ last.op \in FireOps
    /\ last.name = "T12"
    /\ last.ok
    /\ Len(places["P_storage"].tokens) >= 1
    /\ LET tok == last.sel[1].toks[1]
           copy == places["P_storage"].tokens[Len(places["P_storage"].tokens)]
       IN  /\ copy.uid # tok.uid
           /\ copy.batch_id = tok.batch_id
           /\ tok.uid \notin Uids(places["P_pure_Ni"].tokens)

\* ---------------------------------------------------------------- registration
\* C21: add_place fails on a registered place name and add_transition on
\* a registered transition name, and the failed call leaves the registered
\* objects as they were; a name new to its namespace is registered (a
\* transition after those registered before it) even when the other
\* namespace holds it, and no call ever drops or replaces a registered name.
C21_NamesUnique ==
    [][/\ DOMAIN places \subseteq DOMAIN places'
       /\ DOMAIN transitions \subseteq DOMAIN transitions'
       /\ last'.op = "add_place" =>
             IF last'.name \in DOMAIN places
             THEN /\ ~last'.ok
                  /\ last'.err = "place exists"
                  /\ UNCHANGED <<places, transitions>>
             ELSE /\ last'.ok
                  /\ DOMAIN places' = DOMAIN places \cup {last'.name}
                  /\ places'[last'.name].tokens = <<>>
                  /\ \A p \in DOMAIN places : places'[p] = places[p]
                  /\ UNCHANGED transitions
       /\ last'.op = "add_transition" =>
             IF last'.name \in DOMAIN transitions
             THEN /\ ~last'.ok
                  /\ last'.err = "transition exists"
                  /\ UNCHANGED <<places, transitions>>
             ELSE /\ last'.ok
                  /\ DOMAIN transitions' = DOMAIN transitions \cup {last'.name}
                  /\ transitions'[last'.name] =
                         [MovePure EXCEPT !.pos = Cardinality(DOMAIN transitions) + 1]
                  /\ \A t \in DOMAIN transitions : transitions'[t] = transitions[t]
                  /\ UNCHANGED places]_vars

\* a second add_place("P_pure_Ni") was refused while the place held a
\* token, and the name T6 is both a place and a transition
C21_Witness ==
    /\ last.op = "add_place"
    /\ last.name = "P_pure_Ni"
    /\ last.err = "place exists"
    /\ Len(places["P_pure_Ni"].tokens) >= 1
    /\ "T6" \in DOMAIN places \cap DOMAIN transitions
    /\ "P_pure_Ni" \in DOMAIN transitions

\* ---------------------------------------------------------------- status_snapshot
\* C22: status_snapshot returns a mapping whose keys are the registered
\* place names and whose values are their token counts, and the call
\* leaves the net as it was, so a second call returns the same mapping.
C22_SnapshotReadOnly ==
    [][last'.op = "status_snapshot" =>
          /\ DOMAIN frame'.ret = DOMAIN places
          /\ \A p \in DOMAIN places : frame'.ret[p] = Len(places[p].tokens)
          /\ UNCHANGED <<places, transitions, stats, global_time, batch_counter>>
          /\ last.op = "status_snapshot" => frame'.ret = frame.ret]_vars

\* a snapshot returned for a net with an empty and a non-empty place and a
\* place registered after construction
C22_Witness ==
    /\ last.op = "status_snapshot"
    /\ DOMAIN frame.ret = DOMAIN places
    /\ \E p, q \in DOMAIN places : frame.ret[p] = 0 /\ frame.ret[q] >= 1
    /\ "T6" \in DOMAIN places

\* ---------------------------------------------------------------- next_batch_id
\* the prefixes of the batch ids made from next_batch_id
CounterTags == {"NC-", "NP-", "RCO-"}

\* the number a digit sequence writes
RECURSIVE DigitsValue(_)
DigitsValue(d) ==
    IF d = <<>> THEN 0 ELSE 10 * DigitsValue(SubSeq(d, 1, Len(d) - 1)) + d[Len(d)]

\* the tokens of a marking whose batch id was made from next_batch_id
Numbered(P) ==
    {tok \in UNION {{P[p].tokens[i] : i \in 1..Len(P[p].tokens)} : p \in DOMAIN P} :
        tok.batch_id[1] \in CounterTags}

\* C23: the counter behind next_batch_id never decreases and a rejected
\* firing leaves it alone; the identifiers a firing draws are the next
\* numbers after the counter, zero-padded to four digits, strictly
\* increasing in the order the tokens are made, one per token, whichever
\* output rule drew them; a call by the caller returns the next number,
\* which no token carries; no two tokens of the net carry the same number.
C23_BatchIdsIncrease ==
    [][/\ batch_counter' >= batch_counter
       /\ last'.op = "next_batch_id" =>
             /\ batch_counter' = batch_counter + 1
             /\ Len(frame'.ret) = 4
             /\ DigitsValue(frame'.ret) = batch_counter'
             /\ \A a \in Numbered(places') : DigitsValue(a.batch_id[2]) < batch_counter'
             /\ places' = places
       /\ \A t \in DOMAIN transitions :
             (FireCall(t) /\ ~last'.ok) => batch_counter' = batch_counter
       /\ \A a \in {tok \in Numbered(places') : tok.uid >= nextObj} :
             /\ Len(a.batch_id[2]) = 4
             /\ DigitsValue(a.batch_id[2]) \in (batch_counter + 1)..batch_counter'
             /\ \A b \in {tok \in Numbered(places') : tok.uid >= nextObj} :
                   a.uid < b.uid => DigitsValue(a.batch_id[2]) < DigitsValue(b.batch_id[2])
       /\ Cardinality({tok \in Numbered(places') : tok.uid >= nextObj})
             = batch_counter' - batch_counter - (IF last'.op = "next_batch_id" THEN 1 ELSE 0)
       /\ \A a, b \in Numbered(places') :
             a.uid # b.uid => a.batch_id[2] # b.batch_id[2]]_vars

\* T10 has fired after T6, which fired after a call by the caller that
\* took number 1: the NiCO4 token took number 2, the Ni_pure token number
\* 3 and the four CO tokens numbers 4 to 7
C23_Witness ==
    /\ last.op = "step_fire"
    /\ last.name = "T10"
    /\ last.ok
    /\ batch_counter = 7
    /\ Len(places["P_pure_Ni"].tokens) = 1
    /\ places["P_pure_Ni"].tokens[1].batch_id = <<"NP-", <<0, 0, 0, 3>>>>
    /\ Len(places["P_CO_recycle"].tokens) = 4
    /\ places["P_CO_recycle"].tokens[4].batch_id = <<"RCO-", <<0, 0, 0, 7>>>>
    /\ last.sel[1].toks[1].batch_id = <<"NC-", <<0, 0, 0, 2>>>>

\* ---------------------------------------------------------------- guards
\* what the guard of t answers for the tokens the selection picks in this
\* marking, read off the marking alone: guard_T6 refuses a first token of
\* known purity below 0.5, guard_T10 an empty selection
Refuses(t) ==
    /\ CountsSuffice(t)
    /\ LET toks == places[transitions[t].guard.place].tokens
       IN  CASE transitions[t].guard.kind = "guard_T6" ->
                   Len(toks) < 1 \/ (toks[1].purity # None /\ toks[1].purity < 50)
             [] transitions[t].guard.kind = "guard_T10" -> Len(toks) < 1
             [] OTHER -> FALSE

\* C24: the guards of T6 and T10 are pure. Whether a fire call is blocked
\* by the guard is decided by the marking alone; a blocked call leaves the
\* whole net as it was, so the same call made again is blocked again; and
\* when the guard accepts, the tokens handed on are the tokens of the
\* marking, unaltered.
C24_GuardsPure ==
    [][\A t \in DOMAIN transitions :
          (FireCall(t) /\ transitions[t].guard.kind # "none") =>
              /\ (last'.info = "guard blocked firing") <=> Refuses(t)
              /\ last'.info = "guard blocked firing" =>
                    UNCHANGED <<places, transitions, stats, global_time, batch_counter, nextObj>>
              /\ (last.op \in FireOps /\ last.name = t /\ last.info = "guard blocked firing") =>
                    last'.info = "guard blocked firing"
              /\ last'.ok =>
                    \A i \in 1..Len(last'.sel) :
                        last'.sel[i].toks =
                            SubSeq(places[last'.sel[i].place].tokens, 1, Len(last'.sel[i].toks))]_vars

\* guard_T6 has blocked T6 on a token of purity 0.3 at the head of a place
\* that holds a second token
C24_Witness ==
    /\ last.op = "step_fire"
    /\ last.name = "T6"
    /\ last.info = "guard blocked firing"
    /\ Len(places["P_impure_Ni"].tokens) >= 2
    /\ places["P_impure_Ni"].tokens[1].purity = 30
    /\ transitions["T6"].fired_count = 0
    /\ transitions["T1"].fired_count >= 1

\* ---------------------------------------------------------------- remove_tokens
\* C27: remove_tokens(toks) that succeeds has removed exactly the given
\* instances (the count drops by their number, the other tokens keep
\* their order), it fails with the token-not-found error when a given
\* instance is not in the place, and in either case it touches neither a
\* token that was not given nor another place.
C27_RemoveExact ==
    [][last'.op = "remove_tokens" =>
          /\ last'.ok =>
                /\ Uids(frame'.args) \subseteq Uids(places[last'.name].tokens)
                /\ Len(places'[last'.name].tokens)
                      = Len(places[last'.name].tokens) - Len(frame'.args)
                /\ places'[last'.name].tokens
                      = SelectSeq(places[last'.name].tokens,
                                  LAMBDA tok : tok.uid \notin Uids(frame'.args))
          /\ (\E i \in 1..Len(frame'.args) :
                  frame'.args[i].uid \notin Uids(places[last'.name].tokens)) =>
                /\ ~last'.ok
                /\ last'.err = "token not found"
          /\ SelectSeq(places'[last'.name].tokens, LAMBDA tok : tok.uid \notin Uids(frame'.args))
                = SelectSeq(places[last'.name].tokens,
                            LAMBDA tok : tok.uid \notin Uids(frame'.args))
          /\ \A q \in DOMAIN places \ {last'.name} : places'[q] = places[q]
          /\ places'[last'.name].capacity = places[last'.name].capacity]_vars

\* the third and the first of three tokens were removed from A, in that
\* order: the second is left
C27_Witness ==
    /\ last.op = "remove_tokens"
    /\ last.ok
    /\ Len(frame.args) = 2
    /\ frame.args[1].uid = 2
    /\ frame.args[2].uid = 0
    /\ Len(places["A"].tokens) = 1
    /\ places["A"].tokens[1].uid = 1

\* ---------------------------------------------------------------- find_tokens
\* C28 (as claimed): find_tokens(predicate, limit) returns, in place
\* order, the first min(limit, m) of the m matching tokens, for every
\* limit >= 0, all of them when no limit is given, and leaves the place as
\* it was.
C28_FindFirstMatches ==
    [][last'.op = "find_tokens" =>
          LET cond == frame'.args[1]
              limit == frame'.args[2]
              matching == SelectSeq(places[last'.name].tokens,
                                    LAMBDA tok : cond = NoCond \/ tok.type = cond)
          IN  /\ frame'.ret =
                    IF limit = None \/ limit >= Len(matching) THEN matching
                    ELSE SubSeq(matching, 1, limit)
              /\ UNCHANGED places]_vars

\* ---------------------------------------------------------------- consumption order
\* the weight transition t declares on place p, 0 when p is no input of t
InputWeight(t, p) ==
    IF \E i \in 1..Len(transitions[t].inputs) : transitions[t].inputs[i].place = p
    THEN transitions[t].inputs[CHOOSE i \in 1..Len(transitions[t].inputs) :
                                  transitions[t].inputs[i].place = p].w
    ELSE 0

\* C29 (as claimed): a successful fire takes from each input place exactly
\* its first weight tokens, leaves the rest in their order, appends what it
\* produces at the end of the output places, and the record it returns
\* maps each input place to exactly the tokens removed.
C29_ConsumesOldestFirst ==
    [][\A t \in DOMAIN transitions :
          (FireCall(t) /\ last'.ok) =>
              /\ \A p \in DOMAIN places :
                    LET old == places[p].tokens
                        new == places'[p].tokens
                        kept == Len(old) - InputWeight(t, p)
                    IN  /\ kept >= 0
                        /\ Len(new) >= kept
                        /\ SubSeq(new, 1, kept) = SubSeq(old, InputWeight(t, p) + 1, Len(old))
                        /\ \A i \in (kept + 1)..Len(new) : new[i].uid >= nextObj
              /\ Len(last'.sel) = Len(transitions[t].inputs)
              /\ \A i \in 1..Len(last'.sel) :
                    /\ last'.sel[i].place = transitions[t].inputs[i].place
                    /\ last'.sel[i].toks =
                          SubSeq(places[last'.sel[i].place].tokens, 1, transitions[t].inputs[i].w)]_vars

\* ---------------------------------------------------------------- gate order
\* the selection held by a fire call is resident: every selected token is
\* in its source place
SelectionResident(sel) ==
    \A i \in 1..Len(sel) : Uids(sel[i].toks) \subseteq Uids(places[sel[i].place].tokens)

\* C30: a fire call passes its gates in the order count check, selection,
\* guard, apply, and may leave at any of them. The guard is evaluated
\* only after the count check and the selection succeeded; when it is
\* evaluated the marking is the marking at the call and every selected
\* token is resident; nothing is removed or produced before the guard has
\* accepted; and the call returns what fire returns for the net at the call.
C30_GateOrder ==
    [][frame.pc # "none" =>
          /\ <<frame.pc, frame'.pc>> \in
                {<<"counts", "select">>, <<"select", "guard">>, <<"guard", "apply">>,
                 <<"counts", "none">>, <<"select", "none">>, <<"guard", "none">>,
                 <<"apply", "none">>}
          /\ frame.pc \in {"counts", "select", "guard"} =>
                UNCHANGED <<places, transitions, stats, global_time, batch_counter, nextObj>>
          /\ frame.pc = "guard" =>
                /\ CountsSuffice(frame.name)
                /\ Len(frame.sel) = Len(transitions[frame.name].inputs)
                /\ \A i \in 1..Len(frame.sel) :
                      Len(frame.sel[i].toks) >= transitions[frame.name].inputs[i].w
                /\ SelectionResident(frame.sel)
                /\ Net = frame.pre
          /\ frame'.pc = "apply" => ~Refuses(frame.name)
          /\ frame.pc = "apply" =>
                /\ last'.ok
                /\ \A i \in 1..Len(frame.sel) : Uids(frame.sel[i].toks) \cap Resident' = {}
          /\ frame'.pc = "none" =>
                \E d \in Draws : \E r \in {Fire(frame.name, Drawn(frame.pre, d))} :
                    /\ last' = Call("fire", frame.name, r)
                    /\ places' = r.net.places
                    /\ transitions' = r.net.transitions
                    /\ batch_counter' = r.net.batch_counter]_vars

\* the guard of T10 has accepted a NiCO4 token made by T6: the call is
\* at the apply gate and the token is still in P_decomposer
C30_Witness ==
    /\ frame.pc = "apply"
    /\ frame.name = "T10"
    /\ Len(frame.sel) = 1
    /\ frame.sel[1].toks[1].type = "NiCO4"
    /\ SelectionResident(frame.sel)
    /\ Net = frame.pre
    /\ transitions["T6"].fired_count = 1

\* ---------------------------------------------------------------- termination of the search
\* C26: find_sequence_bfs terminates, also on a net whose transition T1
\* is enabled in every marking: no state whose sequence has max_depth
\* names is expanded, every search in progress comes to its return, and it
\* returns None only from an empty queue and a sequence only for a
\* dequeued state that meets the goal.
C26_BfsTerminates ==
    /\ [][/\ bfs'.phase = "expand" => Len(bfs'.seq) < bfs'.max_depth
          /\ \A i \in 1..Len(bfs'.queue) : Len(bfs'.queue[i].seq) <= bfs'.max_depth
          /\ (bfs.phase = "search" /\ bfs'.phase = "done") =>
                IF bfs'.found
                THEN /\ bfs.queue # <<>>
                     /\ GoalHolds(bfs.goal, StatusSnapshot(bfs.store[Head(bfs.queue).h]))
                ELSE bfs.queue = <<>>]_vars
    /\ (bfs.phase \in {"search", "expand"}) ~> (bfs.phase \in {"done", "raised"})

\* a search for a place the unit net does not have has returned None
\* after it made eight nets, with T1 enabled in every one of them
C26_Witness ==
    /\ bfs.phase = "done"
    /\ ~bfs.found
    /\ bfs.goal = "P_storage"
    /\ bfs.max_depth >= 2
    /\ bfs.nexth >= 8
    /\ IsEnabled(transitions["T1"], Net)

\* C31: an iteration of auto_run whose fire ends in a structural error
\* hands the error to the caller and ends the run there; that iteration
\* advances neither the firing statistics, nor any fired_count, nor the
\* clock.
C31_RunErrorUncounted ==
    [][(last'.op = "auto_run" /\ last'.err # "none") =>
          /\ run.active /\ ~run'.active
          /\ ~last'.ok
          /\ global_time' = global_time
          /\ stats' = stats
          /\ \A t \in DOMAIN transitions :
                transitions'[t].fired_count = transitions[t].fired_count]_vars

\* a run of two iterations whose second iteration chose T7 and ended in
\* the capacity error of the condenser, one tick after the run began
C31_Witness ==
    /\ last.op = "auto_run" /\ last.name = "T7" /\ last.err = "capacity exceeded"
    /\ ~run.active
    /\ global_time = 1
    /\ stats[StatKey("T7")] = 0
    /\ transitions["T7"].fired_count = 0

\* an iteration of auto_run under 'prioritise' was rejected by the guard
\* of the transition it chose, and the run goes on
GuardBlockedRun ==
    /\ run.active /\ run.policy = "prioritise"
    /\ last.op = "auto_run" /\ last.info = "guard blocked firing"

\* C39: under 'prioritise' an iteration rejected by the guard of the
\* chosen transition leaves the net unchanged but for the clock, and
\* every later iteration of the run chooses the same transition and is
\* rejected again: nothing fires, the clock advances by one each time.
C39_GuardBlockRepeats ==
    [][/\ (run.active /\ run.policy = "prioritise" /\ last'.op = "auto_run"
            /\ last'.info = "guard blocked firing") =>
              /\ ~last'.ok
              /\ places' = places /\ transitions' = transitions /\ stats' = stats
              /\ batch_counter' = batch_counter
              /\ global_time' = global_time + 1
       /\ GuardBlockedRun =>
              /\ last'.op = "auto_run" /\ last'.name = last.name
              /\ last'.info = "guard blocked firing" /\ ~last'.ok
              /\ places' = places /\ transitions' = transitions /\ stats' = stats
              /\ global_time' = global_time + 1
              /\ (run'.active => run'.fired = run.fired)]_vars

\* the second iteration of a run under 'prioritise' was rejected by the
\* guard of T6 like the first, while another transition is enabled
C39_Witness ==
    /\ last.op = "auto_run" /\ last.name = "T6" /\ last.info = "guard blocked firing"
    /\ global_time = 2
    /\ stats[StatKey("T6")] = 0
    /\ GetEnabledTransitions(Net) \ {"T6"} # {}

\* ---------------------------------------------------------------- goal already met
\* C35 (as claimed): when the marking passed to find_sequence_bfs already
\* satisfies the goal, the search returns the empty sequence whatever
\* max_depth is, without firing a transition on any copy, and the empty
\* sequence counts as a found result: the caller reports it as found.
C35_EmptyIsFound ==
    (bfs.phase = "done" /\ bfs.pos = 0 /\ GoalHolds(bfs.goal, StatusSnapshot(Net))) =>
        /\ bfs.found
        /\ bfs.result = <<>>
        /\ bfs.nexth = 2
        /\ MainReport(bfs.found, bfs.result) = "Found sequence:"

\* ---------------------------------------------------------------- the Mond net under auto_run
\* C37: from the marking of build_mond_process, under auto_run with policy
\* 'prioritise' alone, P_condenser never holds more than one token: an
\* iteration chooses T7 only when T8 is not enabled, that is when the
\* condenser is empty, the firing succeeds, and no run ends in an error.
C37_CondenserAtMostOne ==
    [][/\ Count(places'["P_condenser"]) <= 1
       /\ last'.err = "none"
       /\ (last'.op = "auto_run" /\ last'.name = "T7") =>
              /\ "T8" \notin GetEnabledTransitions(Net)
              /\ Count(places["P_condenser"]) = 0
              /\ last'.ok
              /\ Count(places'["P_condenser"]) = 1]_vars

\* the second firing of T7 in a run under 'prioritise' has just put its
\* token into the condenser, which holds that token alone
C37_Witness ==
    /\ "T14" \in DOMAIN transitions
    /\ last.op = "auto_run" /\ last.name = "T7" /\ last.ok
    /\ transitions["T7"].fired_count = 2
    /\ transitions["T8"].fired_count = 1
    /\ Count(places["P_condenser"]) = 1

\* ---------------------------------------------------------------- the Mond net, step by step
\* the batch ids of the last n tokens of a place
LastBatchIds(place, n) ==
    {place.tokens[i].batch_id : i \in (Len(place.tokens) - n + 1)..Len(place.tokens)}

\* C32: a successful fire of T10 of the Mond net removes exactly the
\* oldest token of P_decomposer, appends exactly one token to P_pure_Ni
\* and exactly four to P_CO_recycle, five tokens with five distinct batch
\* ids drawn from the counter, and leaves every other place as it was: the
\* firing protocol adds nothing of its own to the declared output place.
C32_DecompositionYield ==
    [][(FireCall("T10") /\ last'.ok) =>
          /\ places'["P_decomposer"].tokens = Tail(places["P_decomposer"].tokens)
          /\ Count(places'["P_pure_Ni"]) = Count(places["P_pure_Ni"]) + 1
          /\ SubSeq(places'["P_pure_Ni"].tokens, 1, Count(places["P_pure_Ni"]))
                = places["P_pure_Ni"].tokens
          /\ Count(places'["P_CO_recycle"]) = Count(places["P_CO_recycle"]) + 4
          /\ SubSeq(places'["P_CO_recycle"].tokens, 1, Count(places["P_CO_recycle"]))
                = places["P_CO_recycle"].tokens
          /\ batch_counter' = batch_counter + 5
          /\ Cardinality(LastBatchIds(places'["P_pure_Ni"], 1)
                          \cup LastBatchIds(places'["P_CO_recycle"], 4)) = 5
          /\ \A p \in DOMAIN places \ {"P_decomposer", "P_pure_Ni", "P_CO_recycle"} :
                places'[p] = places[p]]_vars

\* T10 of the Mond net has just fired: one token in P_pure_Ni, four in
\* P_CO_recycle, the decomposer empty again
C32_Witness ==
    /\ "T14" \in DOMAIN transitions
    /\ last.op = "step_fire" /\ last.name = "T10" /\ last.ok
    /\ Count(places["P_decomposer"]) = 0
    /\ Count(places["P_pure_Ni"]) = 1
    /\ Count(places["P_CO_recycle"]) = 4
    /\ transitions["T10"].fired_count = 1

\* net.stats[key], 0 for a key never counted
StatOf(key) == IF key \in DOMAIN stats THEN stats[key] ELSE 0

\* tok2 is a copy of tok: another object with the same fields
CopyOf(tok2, tok) == tok2.uid # tok.uid /\ [tok2 EXCEPT !.uid = tok.uid] = tok

\* C33: a successful fire of T12 of the Mond net removes the oldest token
\* of P_pure_Ni and appends one copy of it to exactly one of P_storage
\* (counted in qc_passed) and P_scrubber (counted in qc_failed); so in every
\* reachable state P_storage holds qc_passed tokens and qc_passed +
\* qc_failed is the fired_count of T12.
C33_QualityCheckCounts ==
    /\ [](/\ Count(places["P_storage"]) = StatOf(<<"qc_passed">>)
          /\ StatOf(<<"qc_passed">>) + StatOf(<<"qc_failed">>)
                = transitions["T12"].fired_count)
    /\ [][(FireCall("T12") /\ last'.ok) =>
             /\ places'["P_pure_Ni"].tokens = Tail(places["P_pure_Ni"].tokens)
             /\ \E to \in {"P_storage", "P_scrubber"} :
                   /\ places'[to].tokens # <<>>
                   /\ CopyOf(places'[to].tokens[Count(places'[to])],
                             places["P_pure_Ni"].tokens[1])
                   /\ places'[to].tokens
                         = Append(places[to].tokens, places'[to].tokens[Count(places'[to])])
                   /\ StatOf(IF to = "P_storage" THEN <<"qc_passed">> ELSE <<"qc_failed">>)'
                         = StatOf(IF to = "P_storage" THEN <<"qc_passed">>
                                  ELSE <<"qc_failed">>) + 1
                   /\ StatOf(IF to = "P_storage" THEN <<"qc_failed">> ELSE <<"qc_passed">>)'
                         = StatOf(IF to = "P_storage" THEN <<"qc_failed">>
                                  ELSE <<"qc_passed">>)
                   /\ \A p \in DOMAIN places \ {"P_pure_Ni", to} : places'[p] = places[p]]_vars

\* T12 of the Mond net has just sent its token to the scrubber: counted as
\* failed, nothing in storage
C33_Witness ==
    /\ "T14" \in DOMAIN transitions
    /\ last.op = "step_fire" /\ last.name = "T12" /\ last.ok
    /\ StatOf(<<"qc_failed">>) = 1 /\ StatOf(<<"qc_passed">>) = 0
    /\ Count(places["P_scrubber"]) = 1
    /\ Count(places["P_storage"]) = 0
    /\ Count(places["P_pure_Ni"]) = 0

\* C34 (as claimed): in every reachable marking of the Mond net every
\* token resident in P_decomposer is of type NiCO4, the token T6 made,
\* carried through T7, T8 and T9.
C34_DecomposerHoldsNiCO4 ==
    "T14" \in DOMAIN transitions =>
        \A i \in 1..Count(places["P_decomposer"]) :
            places["P_decomposer"].tokens[i].type = "NiCO4"

\* C36: the Mond net never deadlocks: in every reachable marking T1 and
\* T5, which have no input place, are enabled, so the list auto_run tests
\* for a halt and MondEnv.get_actions returns is never empty and
\* RuleAgent.choose_action never returns None.
C36_NeverDeadlocks ==
    "T14" \in DOMAIN transitions =>
        /\ {"T1", "T5"} \subseteq GetEnabledTransitions(Net)
        /\ IsEnabled(transitions["T1"], Net) /\ IsEnabled(transitions["T5"], Net)
        /\ GetActions(Net) # {}
        /\ "None" \notin ChooseAction(GetActions(Net))

\* T1 and T5 have both fired, the condenser holds a token, and both are
\* still among the actions of the agent
C36_Witness ==
    /\ "T14" \in DOMAIN transitions
    /\ last.op = "step_fire" /\ last.name \in {"T1", "T5"} /\ last.ok
    /\ transitions["T1"].fired_count = 1
    /\ transitions["T5"].fired_count = 1
    /\ Count(places["P_condenser"]) = 1
    /\ {"T1", "T5"} \subseteq GetActions(Net)

\* C38: in every reachable marking of the Mond net the guard of a
\* count-enabled transition accepts the tokens select_tokens picks: the
\* tokens of P_impure_Ni have no purity or one of at least 0.5, and T10
\* always has a token selected; so every attempt on a count-enabled
\* transition fires and none is rejected by a guard.
C38_GuardsNeverReject ==
    "T14" \in DOMAIN transitions =>
        /\ \A i \in 1..Count(places["P_impure_Ni"]) :
              \/ places["P_impure_Ni"].tokens[i].purity = None
              \/ places["P_impure_Ni"].tokens[i].purity >= 50
        /\ \A t \in GetEnabledTransitions(Net) :
              /\ SelectTokens(transitions[t], Net).ok
              /\ GuardHolds(transitions[t].guard, Net, SelectTokens(transitions[t], Net).sel)
        /\ last.info # "guard blocked firing"
        /\ last.op = "step_fire" => last.ok

\* T6 and then T10 of the Mond net were attempted while count-enabled,
\* and both fired
C38_Witness ==
    /\ "T14" \in DOMAIN transitions
    /\ last.op = "step_fire" /\ last.name = "T10" /\ last.ok
    /\ transitions["T6"].fired_count = 1
    /\ transitions["T10"].fired_count = 1
    /\ transitions["T4"].fired_count = 1

\* ---------------------------------------------------------------- the quality-check loop
\* C40: the quality-check loop of main terminates: each iteration fires
\* T12 successfully and lowers the count of P_pure_Ni by exactly one, and
\* the loop ends with P_pure_Ni empty after as many firings of T12 as
\* P_pure_Ni held tokens when it was entered.
C40_QcLoopTerminates ==
    /\ (frame.pc = "qc") ~> (frame.pc = "none" /\ Count(places["P_pure_Ni"]) = 0)
    /\ [][/\ (frame.pc = "qc" /\ Count(places["P_pure_Ni"]) > 0) =>
                /\ last'.op = "step_fire" /\ last'.name = "T12" /\ last'.ok
                /\ Count(places'["P_pure_Ni"]) = Count(places["P_pure_Ni"]) - 1
                /\ frame'.pc = "qc"
          /\ (frame.pc = "qc" /\ frame'.pc = "none") =>
                /\ Count(places'["P_pure_Ni"]) = 0
                /\ transitions'["T12"].fired_count = frame.args[2] + frame.args[1]]_vars

\* the loop was entered with a token in P_pure_Ni, which the run of
\* auto_run left there, and has ended after one firing of T12, P_pure_Ni
\* empty
C40_Witness ==
    /\ frame.pc = "none"
    /\ Len(frame.args) = 2
    /\ frame.args[1] = 1
    /\ last.op = "qc" /\ last.info = "done"
    /\ transitions["T10"].fired_count = 1
    /\ transitions["T12"].fired_count = frame.args[2] + 1
    /\ Count(places["P_pure_Ni"]) = 0

====
